---- MODULE Spec2Model ----
(***************************************************************************)
(* Role-scoped clinical administration API: the query-scoping and          *)
(* aggregation layer of apps/clinical and apps/scheduling.                 *)
(*                                                                         *)
(* The store (patients, care relationships, clinicians' deleted_at,        *)
(* procedures) is the state; every HTTP handler is one action that reads   *)
(* or writes the store and leaves its response in resp.                    *)
(***************************************************************************)
EXTENDS Integers, Sequences, FiniteSets, Bags, TLC

(* ------------------------------ bounds -------------------------------- *)
MaxPatients == 2
MaxLinks == 2
MaxProcedures == 2
MaxClock == 3

(* --------------------------- fixed fixtures --------------------------- *)
\* NULL of a nullable column (relationship_end, deleted_at is kept as a flag).
NULL == -1

\* Principals.  "anon" is the unauthenticated AnonymousUser; "guest" is
\* authenticated and holds no role; "chief" is in the patient_admin group
\* and also owns a clinician profile.
Users == {"anon", "guest", "doc", "nurse", "locum", "admin", "chief"}
PatientAdminGroup == {"admin", "chief"}

\* Department rows (Department has no soft delete).
Departments == {1, 2}

\* Clinician rows: Clinician.user (one-to-one), Clinician.department and the
\* rank of Clinician.name in alphabetical order (clinicians 1 and 3 carry the
\* same name; clinician 4, of the same department, comes before them).
Clinicians == {1, 2, 3, 4}
ClinicianUser == <<"doc", "chief", "nurse", "locum">>
ClinicianDepartment == <<1, 2, 1, 1>>
ClinicianName == <<2, 1, 2, 1>>

VARIABLES
    patients,      \* Seq of [name, email, deleted]; index = Patient.id
    links,         \* bag of PatientClinician rows
                   \* [patient, clinician, relationship_end, deleted]
    clinDeleted,   \* set of Clinician ids whose deleted_at is set
    procedures,    \* Seq of Procedure rows; index = Procedure.id
    retired,       \* set of ProcedureType ids whose is_active is False
    now,           \* the clock, timezone.now()
    resp           \* the response of the last request

vars == <<patients, links, clinDeleted, procedures, retired, now, resp>>
store == <<patients, links, clinDeleted, procedures, retired>>

(* ------------------------------ responses ----------------------------- *)
\* A response: the handler (op), the principal, the request and the status;
\* err is the set of keys of an error body; ids the rows of a list or detail
\* body; rows the ordered results of a report; count the paginator's total;
\* department the department summary of the count report (0: none).
Response(op, user, req, status, err, ids, rows, count, department) ==
    [op |-> op, user |-> user, req |-> req, status |-> status, err |-> err,
     ids |-> ids, rows |-> rows, count |-> count, department |-> department]
NoResp == Response("none", "anon", [none |-> TRUE], 0, {}, {}, <<>>, 0, 0)

HTTP_200_OK == 200
HTTP_201_CREATED == 201
HTTP_204_NO_CONTENT == 204
HTTP_400_BAD_REQUEST == 400
HTTP_401_UNAUTHORIZED == 401
HTTP_403_FORBIDDEN == 403
HTTP_404_NOT_FOUND == 404

ErrorResponse(op, u, req, status, keys) ==
    Response(op, u, req, status, keys, {}, <<>>, 0, 0)
NotAuthenticated(op, u, req) ==
    ErrorResponse(op, u, req, HTTP_401_UNAUTHORIZED, {"detail"})
PermissionDenied(op, u, req) ==
    ErrorResponse(op, u, req, HTTP_403_FORBIDDEN, {"detail"})
NotFound(op, u, req) ==
    ErrorResponse(op, u, req, HTTP_404_NOT_FOUND, {"detail"})
ValidationError(op, u, req, keys) ==
    ErrorResponse(op, u, req, HTTP_400_BAD_REQUEST, keys)
\* A list page or a detail body.
Ok(op, u, req, status, ids) ==
    Response(op, u, req, status, {}, ids, <<>>, Cardinality(ids), 0)

(* --------------------------- query parameters ------------------------- *)
\* A query parameter is absent, the empty string, a string int() accepts,
\* or any other text.
Absent == [kind |-> "absent", val |-> 0]
EmptyP == [kind |-> "empty", val |-> 0]
TextP == [kind |-> "text", val |-> 0]
IntP(n) == [kind |-> "int", val |-> n]

(* ------------------------------ soft delete --------------------------- *)
\* A manager without the deleted_at filter (models.Manager): every row.
SoftDeleteManager_all(rows) == DOMAIN rows

\* SoftDeleteManager.get_queryset: the default manager hides deleted rows.
SoftDeleteManager(rows) == {i \in DOMAIN rows : ~rows[i].deleted}

\* SoftDeleteModel.delete: the row stays, deleted_at is set.
SoftDelete(rows, i) == [rows EXCEPT ![i].deleted = TRUE]

(* ------------------------------ role resolver ------------------------- *)
is_authenticated(u) == u # "anon"

\* user.groups.filter(name="patient_admin").exists()
in_patient_admin_group(u) == u \in PatientAdminGroup

is_patient_admin(u) == is_authenticated(u) /\ in_patient_admin_group(u)

\* User.has_clinician_profile / hasattr(user, "clinician_profile"): the
\* reverse one-to-one accessor reads through the base manager, so a
\* soft-deleted profile is still found.
has_clinician_profile(u) == \E c \in Clinicians : ClinicianUser[c] = u

clinician_profile(u) == CHOOSE c \in Clinicians : ClinicianUser[c] = u

is_clinician(u) == is_authenticated(u) /\ has_clinician_profile(u)

(* ----------------------------- text matching -------------------------- *)
\* Strings are sequences of one-character strings.
Lower(ch) ==
    CASE ch = "A" -> "a" [] ch = "B" -> "b" [] ch = "J" -> "j" [] OTHER -> ch

LowerStr(s) == [i \in DOMAIN s |-> Lower(s[i])]

\* field__icontains=needle
icontains(hay, needle) ==
    \E i \in 1..(Len(hay) - Len(needle) + 1) :
        SubSeq(LowerStr(hay), i, i + Len(needle) - 1) = LowerStr(needle)

(* ------------------------------ patients ------------------------------ *)
\* A permission that does not look at the method: admin or clinician may
\* read and write.
IsPatientAdminOrClinician_any_method(u, safe) ==
    IF ~is_authenticated(u) THEN FALSE
    ELSE is_patient_admin(u) \/ has_clinician_profile(u)

\* IsPatientAdminOrClinicianReadOnly.has_permission
IsPatientAdminOrClinicianReadOnly(u, safe) ==
    IF ~is_authenticated(u) THEN FALSE
    ELSE IF safe THEN is_patient_admin(u) \/ has_clinician_profile(u)
    ELSE is_patient_admin(u)

\* get_queryset without relationship_end__isnull=True: any relationship row
\* to the clinician shows the patient.
PatientViewSet_get_queryset_any_link(u, search) ==
    LET qs == SoftDeleteManager(patients)
        base_qs ==
            IF in_patient_admin_group(u) THEN qs
            ELSE IF has_clinician_profile(u)
            THEN {p \in qs : \E l \in BagToSet(links) :
                      /\ l.patient = p
                      /\ l.clinician = clinician_profile(u)}
            ELSE {}
    IN  IF search # <<>>
        THEN {p \in base_qs : \/ icontains(patients[p].name, search)
                              \/ icontains(patients[p].email, search)}
        ELSE base_qs

\* PatientViewSet.get_queryset.  search is <<>> when the parameter is absent
\* or empty.
PatientViewSet_get_queryset(u, search) ==
    LET qs == SoftDeleteManager(patients)
        base_qs ==
            IF in_patient_admin_group(u) THEN qs
            ELSE IF has_clinician_profile(u)
            THEN {p \in qs : \E l \in BagToSet(links) :
                      /\ l.patient = p
                      /\ l.clinician = clinician_profile(u)
                      /\ l.relationship_end = NULL}
            ELSE {}
    IN  IF search # <<>>
        THEN {p \in base_qs : \/ icontains(patients[p].name, search)
                              \/ icontains(patients[p].email, search)}
        ELSE base_qs

\* The permission_classes of PatientViewSet, in order: the status of the
\* first refusal, 200 when the handler may run.
PatientViewSet_check_permissions(u, safe) ==
    IF ~is_authenticated(u) THEN HTTP_401_UNAUTHORIZED
    ELSE IF ~IsPatientAdminOrClinicianReadOnly(u, safe) THEN HTTP_403_FORBIDDEN
    ELSE HTTP_200_OK

Denied(op, u, req, code) ==
    IF code = HTTP_401_UNAUTHORIZED THEN NotAuthenticated(op, u, req)
    ELSE PermissionDenied(op, u, req)

\* GET /patients/?search= : the response
PatientList_response(u, search) ==
    LET req == [search |-> search]
        perm == PatientViewSet_check_permissions(u, TRUE)
    IN  IF perm # HTTP_200_OK THEN Denied("patient_list", u, req, perm)
        ELSE Ok("patient_list", u, req, HTTP_200_OK,
                PatientViewSet_get_queryset(u, search))

PatientList(u, search) ==
    /\ resp' = PatientList_response(u, search)
    /\ UNCHANGED <<store, now>>

\* GET /patients/{id}/ : the response (get_object reads get_queryset)
PatientRetrieve_response(u, id, search) ==
    LET req == [id |-> id, search |-> search]
        perm == PatientViewSet_check_permissions(u, TRUE)
    IN  IF perm # HTTP_200_OK THEN Denied("patient_detail", u, req, perm)
        ELSE IF id \notin PatientViewSet_get_queryset(u, search)
        THEN NotFound("patient_detail", u, req)
        ELSE Ok("patient_detail", u, req, HTTP_200_OK, {id})

PatientRetrieve(u, id, search) ==
    /\ resp' = PatientRetrieve_response(u, id, search)
    /\ UNCHANGED <<store, now>>

\* PatientSerializer.validate_date_of_birth: dob is a day number.
DayLength == 2
DateOf(t) == t \div DayLength
validate_date_of_birth(dob) == dob <= DateOf(now)

\* POST /patients/
PatientCreate(u, name, email, dob) ==
    LET req == [name |-> name, email |-> email, dob |-> dob]
        perm == PatientViewSet_check_permissions(u, FALSE)
        id == Len(patients) + 1
    IN  /\ Len(patients) < MaxPatients
        /\ IF perm # HTTP_200_OK
           THEN /\ resp' = Denied("patient_create", u, req, perm)
                /\ UNCHANGED patients
           ELSE IF ~validate_date_of_birth(dob)
           THEN /\ resp' = ValidationError("patient_create", u, req, {"date_of_birth"})
                /\ UNCHANGED patients
           ELSE /\ patients' = Append(patients,
                                      [name |-> name, email |-> email, deleted |-> FALSE])
                /\ resp' = Ok("patient_create", u, req, HTTP_201_CREATED, {id})
        /\ UNCHANGED <<links, clinDeleted, procedures, retired, now>>

\* PATCH /patients/{id}/
PatientUpdate(u, id, name) ==
    LET req == [id |-> id, name |-> name]
        perm == PatientViewSet_check_permissions(u, FALSE)
    IN  /\ IF perm # HTTP_200_OK
           THEN /\ resp' = Denied("patient_update", u, req, perm)
                /\ UNCHANGED patients
           ELSE IF id \notin PatientViewSet_get_queryset(u, <<>>)
           THEN /\ resp' = NotFound("patient_update", u, req)
                /\ UNCHANGED patients
           ELSE /\ patients' = [patients EXCEPT ![id].name = name]
                /\ resp' = Ok("patient_update", u, req, HTTP_200_OK, {id})
        /\ UNCHANGED <<links, clinDeleted, procedures, retired, now>>

\* DELETE /patients/{id}/ : perform_destroy calls SoftDeleteModel.delete
PatientDestroy(u, id) ==
    LET req == [id |-> id]
        perm == PatientViewSet_check_permissions(u, FALSE)
    IN  /\ IF perm # HTTP_200_OK
           THEN /\ resp' = Denied("patient_destroy", u, req, perm)
                /\ UNCHANGED patients
           ELSE IF id \notin PatientViewSet_get_queryset(u, <<>>)
           THEN /\ resp' = NotFound("patient_destroy", u, req)
                /\ UNCHANGED patients
           ELSE /\ patients' = SoftDelete(patients, id)
                /\ resp' = Ok("patient_destroy", u, req, HTTP_204_NO_CONTENT, {})
        /\ UNCHANGED <<links, clinDeleted, procedures, retired, now>>

(* --------------------- care relationships (ORM level) ----------------- *)
\* PatientClinician rows are told apart by id and relationship_start, which
\* no handler reads: the table is a bag of the columns the handlers read, and
\* the unique constraint (patient, clinician, relationship_start) admits any
\* number of rows for the same pair.
ReplaceRow(bag, old, new) == (bag (-) SetToBag({old})) (+) SetToBag({new})

\* PatientClinician.objects.create(patient=p, clinician=c, relationship_start=...)
CreateLink(p, c) ==
    /\ BagCardinality(links) < MaxLinks
    /\ p \in DOMAIN patients
    /\ links' = links (+) SetToBag({[patient |-> p, clinician |-> c,
                                     relationship_end |-> NULL, deleted |-> FALSE]})
    /\ resp' = NoResp
    /\ UNCHANGED <<patients, clinDeleted, procedures, retired, now>>

\* link.relationship_end = now; link.save()
EndLink(l) ==
    /\ l \in BagToSet(links)
    /\ l.relationship_end = NULL
    /\ links' = ReplaceRow(links, l, [l EXCEPT !.relationship_end = now])
    /\ resp' = NoResp
    /\ UNCHANGED <<patients, clinDeleted, procedures, retired, now>>

\* link.delete(): SoftDeleteModel.delete
DeleteLink(l) ==
    /\ l \in BagToSet(links)
    /\ ~l.deleted
    /\ links' = ReplaceRow(links, l, [l EXCEPT !.deleted = TRUE])
    /\ resp' = NoResp
    /\ UNCHANGED <<patients, clinDeleted, procedures, retired, now>>

\* clinician.delete(): SoftDeleteModel.delete
DeleteClinician(c) ==
    /\ c \notin clinDeleted
    /\ clinDeleted' = clinDeleted \cup {c}
    /\ resp' = NoResp
    /\ UNCHANGED <<patients, links, procedures, retired, now>>

(* ---------------------------- pagination ------------------------------ *)
default_limit == 20
max_limit == 100

\* LimitOffsetPagination.get_limit: a positive integer, cut at max_limit;
\* anything else (absent, zero, negative, text) gives default_limit.
get_limit(limit) ==
    IF limit.kind = "int" /\ limit.val > 0
    THEN (IF limit.val > max_limit THEN max_limit ELSE limit.val)
    ELSE default_limit

\* LimitOffsetPagination.get_offset: a non-negative integer, else 0.
get_offset(offset) ==
    IF offset.kind = "int" /\ offset.val >= 0 THEN offset.val ELSE 0

Min(a, b) == IF a < b THEN a ELSE b

\* LimitOffsetPagination.paginate_queryset: queryset[offset:offset + limit],
\* the empty page when there are no rows or the offset is past the end.
paginate_queryset(seq, limit, offset) ==
    LET count == Len(seq)
        lo == get_offset(offset)
        hi == Min(count, lo + get_limit(limit))
    IN  IF count = 0 \/ lo > count THEN <<>>
        ELSE [i \in 1..(hi - lo) |-> seq[lo + i]]

(* ------------------------ clinician patient counts -------------------- *)
\* IsPatientAdminOrClinicianForDepartment.has_permission: the department is
\* read from the query parameter "department".
IsPatientAdminOrClinicianForDepartment(u, department) ==
    IF is_patient_admin(u) THEN TRUE
    ELSE IF has_clinician_profile(u)
    THEN IF department.kind \in {"absent", "empty"} THEN FALSE
         ELSE IF department.kind # "int" THEN FALSE
         ELSE ClinicianDepartment[clinician_profile(u)] = department.val
    ELSE FALSE

\* Clinician.all_objects: the manager without the deleted_at filter.
Clinician_all_objects == Clinicians

\* Clinician.objects: the default manager hides soft-deleted clinicians.
Clinician_objects == Clinicians \ clinDeleted

\* order_by("id") of a set of clinicians: the name is not looked at.
order_by_id(S) ==
    CHOOSE seq \in [1..Cardinality(S) -> S] :
        \A i, j \in DOMAIN seq : i < j => seq[i] < seq[j]

\* order_by("name", "id") of a set of clinicians
ClinicianBefore(a, b) ==
    \/ ClinicianName[a] < ClinicianName[b]
    \/ ClinicianName[a] = ClinicianName[b] /\ a < b

order_by_name_id(S) ==
    CHOOSE seq \in [1..Cardinality(S) -> S] :
        /\ \A i, j \in DOMAIN seq : i < j => ClinicianBefore(seq[i], seq[j])

\* PatientClinician.objects.filter(clinician__in=page, relationship_end__isnull=True,
\*     deleted_at__isnull=True, patient__deleted_at__isnull=True)
counts_qs(page) ==
    {l \in BagToSet(links) :
        /\ ~l.deleted
        /\ \E i \in DOMAIN page : page[i] = l.clinician
        /\ l.relationship_end = NULL
        /\ ~patients[l.patient].deleted}

\* Count("patient_id") without distinct=True: one per relationship row.
patient_count_rows(rows, c) ==
    LET mine == {r \in rows : r.clinician = c}
    IN  IF mine = {} THEN 0
        ELSE BagCardinality([r \in mine |-> CopiesIn(r, links)])

\* .values("clinician_id").annotate(patient_count=Count("patient_id", distinct=True))
\* and counts_map.get(clinician.id, 0)
patient_count(rows, c) ==
    Cardinality({l.patient : l \in {r \in rows : r.clinician = c}})

\* The view with the clinician_id filter applied to every principal, admin
\* or not.
ClinicianPatientCounts_response_filter_for_all(u, department_id, department, clinician_id, limit, offset) ==
    LET op == "clinician_patient_counts"
        req == [department_id |-> department_id, department |-> department,
                clinician_id |-> clinician_id, limit |-> limit, offset |-> offset]
        is_admin == in_patient_admin_group(u)
        is_clin == has_clinician_profile(u)
        in_department == {c \in Clinician_objects :
                              ClinicianDepartment[c] = department_id}
        scoped == IF is_clin /\ ~is_admin
                  THEN {c \in in_department : c = clinician_profile(u)}
                  ELSE in_department
        filtered == IF clinician_id.kind # "absent"
                    THEN {c \in scoped : c = clinician_id.val}
                    ELSE scoped
        clinicians_qs == order_by_name_id(filtered)
        page == paginate_queryset(clinicians_qs, limit, offset)
        rows == counts_qs(page)
        results == [i \in DOMAIN page |->
                       [clinician |-> page[i],
                        patient_count |-> patient_count(rows, page[i])]]
    IN  IF ~is_authenticated(u) THEN NotAuthenticated(op, u, req)
        ELSE IF ~IsPatientAdminOrClinicianForDepartment(u, department)
        THEN PermissionDenied(op, u, req)
        ELSE IF department_id \notin Departments THEN NotFound(op, u, req)
        ELSE IF clinician_id.kind \in {"empty", "text"}
        THEN ValidationError(op, u, req, {"clinician_id"})
        ELSE Response(op, u, req, HTTP_200_OK, {}, {}, results,
                      Len(clinicians_qs), department_id)

\* The view with the clinician named by clinician_id fetched as an object
\* of the department: not found when the filter leaves no clinician.
ClinicianPatientCounts_response_get_or_404(u, department_id, department, clinician_id, limit, offset) ==
    LET op == "clinician_patient_counts"
        req == [department_id |-> department_id, department |-> department,
                clinician_id |-> clinician_id, limit |-> limit, offset |-> offset]
        is_admin == in_patient_admin_group(u)
        is_clin == has_clinician_profile(u)
        in_department == {c \in Clinician_objects :
                              ClinicianDepartment[c] = department_id}
        scoped == IF is_clin /\ ~is_admin
                  THEN {c \in in_department : c = clinician_profile(u)}
                  ELSE in_department
        filtered == IF clinician_id.kind # "absent" /\ is_admin
                    THEN {c \in scoped : c = clinician_id.val}
                    ELSE scoped
        clinicians_qs == order_by_name_id(filtered)
        page == paginate_queryset(clinicians_qs, limit, offset)
        rows == counts_qs(page)
        results == [i \in DOMAIN page |->
                       [clinician |-> page[i],
                        patient_count |-> patient_count(rows, page[i])]]
    IN  IF ~is_authenticated(u) THEN NotAuthenticated(op, u, req)
        ELSE IF ~IsPatientAdminOrClinicianForDepartment(u, department)
        THEN PermissionDenied(op, u, req)
        ELSE IF department_id \notin Departments THEN NotFound(op, u, req)
        ELSE IF clinician_id.kind \in {"empty", "text"} /\ is_admin
        THEN ValidationError(op, u, req, {"clinician_id"})
        ELSE IF clinician_id.kind = "int" /\ is_admin /\ filtered = {}
        THEN NotFound(op, u, req)
        ELSE Response(op, u, req, HTTP_200_OK, {}, {}, results,
                      Len(clinicians_qs), department_id)

\* DepartmentClinicianPatientCountView.get : the response of
\* GET /departments/{department_id}/clinician-patient-counts/
ClinicianPatientCounts_response(u, department_id, department, clinician_id, limit, offset) ==
    LET op == "clinician_patient_counts"
        req == [department_id |-> department_id, department |-> department,
                clinician_id |-> clinician_id, limit |-> limit, offset |-> offset]
        is_admin == in_patient_admin_group(u)
        is_clin == has_clinician_profile(u)
        in_department == {c \in Clinician_objects :
                              ClinicianDepartment[c] = department_id}
        scoped == IF is_clin /\ ~is_admin
                  THEN {c \in in_department : c = clinician_profile(u)}
                  ELSE in_department
        filtered == IF clinician_id.kind # "absent" /\ is_admin
                    THEN {c \in scoped : c = clinician_id.val}
                    ELSE scoped
        clinicians_qs == order_by_name_id(filtered)
        page == paginate_queryset(clinicians_qs, limit, offset)
        rows == counts_qs(page)
        results == [i \in DOMAIN page |->
                       [clinician |-> page[i],
                        patient_count |-> patient_count(rows, page[i])]]
    IN  IF ~is_authenticated(u) THEN NotAuthenticated(op, u, req)
        ELSE IF ~IsPatientAdminOrClinicianForDepartment(u, department)
        THEN PermissionDenied(op, u, req)
        ELSE IF department_id \notin Departments THEN NotFound(op, u, req)
        ELSE IF clinician_id.kind \in {"empty", "text"} /\ is_admin
        THEN ValidationError(op, u, req, {"clinician_id"})
        ELSE Response(op, u, req, HTTP_200_OK, {}, {}, results,
                      Len(clinicians_qs), department_id)

ClinicianPatientCounts(u, department_id, department, clinician_id, limit, offset) ==
    /\ resp' = ClinicianPatientCounts_response(u, department_id, department,
                                               clinician_id, limit, offset)
    /\ UNCHANGED <<store, now>>

(* ------------------------------ procedures --------------------------- *)
\* ProcedureType rows: name and default_duration_minutes (NULL for type 2,
\* zero for type 3); is_active is the complement of retired.
ProcedureTypes == {1, 2, 3}
ProcedureTypeName == <<"ECG", "Scan", "Lab">>
ProcedureTypeDefaultDuration == <<30, NULL, 0>>

ProcedureStatus == {"PLANNED", "SCHEDULED", "COMPLETED", "CANCELLED", "NO_SHOW", "VOID"}

\* Procedure.objects
Procedure_objects == SoftDeleteManager(procedures)

\* IsPatientAdminOrClinician.has_permission
IsPatientAdminOrClinician(u) ==
    IF ~is_authenticated(u) THEN FALSE
    ELSE is_patient_admin(u) \/ is_clinician(u)

\* The permission_classes of the scheduling views, in order.
Scheduling_check_permissions(u) ==
    IF ~is_authenticated(u) THEN HTTP_401_UNAUTHORIZED
    ELSE IF ~IsPatientAdminOrClinician(u) THEN HTTP_403_FORBIDDEN
    ELSE HTTP_200_OK

\* ProcedureViewSet.get_queryset
ProcedureViewSet_get_queryset(u) ==
    IF has_clinician_profile(u)
    THEN {i \in Procedure_objects : procedures[i].clinician = clinician_profile(u)}
    ELSE {}

\* GET /procedures/ : the response
ProcedureList_response(u) ==
    LET req == [list |-> TRUE]
        perm == Scheduling_check_permissions(u)
    IN  IF perm # HTTP_200_OK THEN Denied("procedure_list", u, req, perm)
        ELSE Ok("procedure_list", u, req, HTTP_200_OK,
                ProcedureViewSet_get_queryset(u))

ProcedureList(u) ==
    /\ resp' = ProcedureList_response(u)
    /\ UNCHANGED <<store, now>>

\* GET /procedures/{id}/ : the response
ProcedureRetrieve_response(u, id) ==
    LET req == [id |-> id]
        perm == Scheduling_check_permissions(u)
    IN  IF perm # HTTP_200_OK THEN Denied("procedure_detail", u, req, perm)
        ELSE IF id \notin ProcedureViewSet_get_queryset(u)
        THEN NotFound("procedure_detail", u, req)
        ELSE Ok("procedure_detail", u, req, HTTP_200_OK, {id})

ProcedureRetrieve(u, id) ==
    /\ resp' = ProcedureRetrieve_response(u, id)
    /\ UNCHANGED <<store, now>>

\* DELETE /procedures/{id}/ (ModelViewSet.destroy -> SoftDeleteModel.delete)
ProcedureDestroy(u, id) ==
    LET req == [id |-> id]
        perm == Scheduling_check_permissions(u)
    IN  /\ IF perm # HTTP_200_OK
           THEN /\ resp' = Denied("procedure_destroy", u, req, perm)
                /\ UNCHANGED procedures
           ELSE IF id \notin ProcedureViewSet_get_queryset(u)
           THEN /\ resp' = NotFound("procedure_destroy", u, req)
                /\ UNCHANGED procedures
           ELSE /\ procedures' = SoftDelete(procedures, id)
                /\ resp' = Ok("procedure_destroy", u, req, HTTP_204_NO_CONTENT, {})
        /\ UNCHANGED <<patients, links, clinDeleted, retired, now>>

\* PatientClinician.objects.filter(patient=p, clinician=c,
\*     relationship_end__isnull=True, deleted_at__isnull=True).exists()
has_link(p, c) ==
    \E l \in BagToSet(links) :
        /\ ~l.deleted
        /\ l.patient = p
        /\ l.clinician = c
        /\ l.relationship_end = NULL

\* Field validation with the type looked up among all types
\* (ProcedureType.objects.all()), active or not.
ProcedureSerializer_field_errors_any_type(d) ==
    (IF d.patient_id \in SoftDeleteManager(patients) THEN {} ELSE {"patient_id"})
    \cup (IF d.procedure_type_id \in ProcedureTypes
          THEN {} ELSE {"procedure_type_id"})
    \cup (IF d.clinician_id \in Clinician_objects THEN {} ELSE {"clinician_id"})
    \cup (IF d.scheduled_at # NULL THEN {} ELSE {"scheduled_at"})

\* The field validation of ProcedureSerializer: the keys of the fields that
\* are refused.  d is the request payload; scheduled_at is NULL when omitted.
ProcedureSerializer_field_errors(d) ==
    (IF d.patient_id \in SoftDeleteManager(patients) THEN {} ELSE {"patient_id"})
    \cup (IF d.procedure_type_id \in ProcedureTypes \ retired
          THEN {} ELSE {"procedure_type_id"})
    \cup (IF d.clinician_id \in Clinician_objects THEN {} ELSE {"clinician_id"})
    \cup (IF d.scheduled_at # NULL THEN {} ELSE {"scheduled_at"})

\* validate without the comparison of the clinician named with the
\* principal's own profile.
ProcedureSerializer_validate_any_clinician(u, d) ==
    LET is_admin == is_authenticated(u) /\ in_patient_admin_group(u)
        is_clinician_user == is_authenticated(u) /\ has_clinician_profile(u)
    IN  (IF d.status \in {"PLANNED", "SCHEDULED"}
            /\ (d.scheduled_at = NULL \/ d.scheduled_at < now)
         THEN {"scheduled_at"} ELSE {})
        \cup (IF is_clinician_user /\ ~is_admin /\ ~has_link(d.patient_id, d.clinician_id)
              THEN {"patient_id"} ELSE {})

\* validate with scheduled_at <= now refused: the present instant counts as
\* past.
ProcedureSerializer_validate_strict_future(u, d) ==
    LET is_admin == is_authenticated(u) /\ in_patient_admin_group(u)
        is_clinician_user == is_authenticated(u) /\ has_clinician_profile(u)
    IN  (IF d.status \in {"PLANNED", "SCHEDULED"}
            /\ (d.scheduled_at = NULL \/ d.scheduled_at <= now)
         THEN {"scheduled_at"} ELSE {})
        \cup (IF is_clinician_user /\ ~is_admin /\ d.clinician_id # clinician_profile(u)
              THEN {"clinician_id"} ELSE {})
        \cup (IF is_clinician_user /\ ~is_admin /\ ~has_link(d.patient_id, d.clinician_id)
              THEN {"patient_id"} ELSE {})

\* ProcedureSerializer.validate: the keys of errors.  status is "" when the
\* request omits it.
ProcedureSerializer_validate(u, d) ==
    LET is_admin == is_authenticated(u) /\ in_patient_admin_group(u)
        is_clinician_user == is_authenticated(u) /\ has_clinician_profile(u)
    IN  (IF d.status \in {"PLANNED", "SCHEDULED"}
            /\ (d.scheduled_at = NULL \/ d.scheduled_at < now)
         THEN {"scheduled_at"} ELSE {})
        \cup (IF is_clinician_user /\ ~is_admin /\ d.clinician_id # clinician_profile(u)
              THEN {"clinician_id"} ELSE {})
        \cup (IF is_clinician_user /\ ~is_admin /\ ~has_link(d.patient_id, d.clinician_id)
              THEN {"patient_id"} ELSE {})

\* ProcedureViewSet.perform_create: TRUE when PermissionDenied is raised.
perform_create_denied(u, d) ==
    /\ has_clinician_profile(u)
    /\ ~in_patient_admin_group(u)
    /\ ~has_link(d.patient_id, clinician_profile(u))

\* ProcedureSerializer.create and the model defaults: the stored row.
ProcedureSerializer_create(d) ==
    LET default == ProcedureTypeDefaultDuration[d.procedure_type_id]
    IN  [procedure_type |-> d.procedure_type_id,
         patient |-> d.patient_id,
         clinician |-> d.clinician_id,
         name |-> IF d.name = "" THEN ProcedureTypeName[d.procedure_type_id]
                  ELSE d.name,
         scheduled_at |-> d.scheduled_at,
         duration_minutes |->
             IF d.duration_minutes = NULL /\ default # NULL /\ default # 0
             THEN default ELSE d.duration_minutes,
         status |-> IF d.status = "" THEN "PLANNED" ELSE d.status,
         deleted |-> FALSE]

\* The creation with the payload validated before the permissions are
\* checked.
ProcedureCreate_refusal_validate_first(u, d) ==
    LET op == "procedure_create"
        perm == Scheduling_check_permissions(u)
    IN  IF ProcedureSerializer_field_errors(d) # {}
        THEN ValidationError(op, u, d, ProcedureSerializer_field_errors(d))
        ELSE IF perm # HTTP_200_OK THEN Denied(op, u, d, perm)
        ELSE IF ProcedureSerializer_validate(u, d) # {}
        THEN ValidationError(op, u, d, ProcedureSerializer_validate(u, d))
        ELSE IF perform_create_denied(u, d) THEN PermissionDenied(op, u, d)
        ELSE NoResp

\* POST /procedures/ : the response that refuses the request, NoResp when
\* the request is accepted (permissions, field validation, validate,
\* perform_create, in that order).
ProcedureCreate_refusal(u, d) ==
    LET op == "procedure_create"
        perm == Scheduling_check_permissions(u)
    IN  IF perm # HTTP_200_OK THEN Denied(op, u, d, perm)
        ELSE IF ProcedureSerializer_field_errors(d) # {}
        THEN ValidationError(op, u, d, ProcedureSerializer_field_errors(d))
        ELSE IF ProcedureSerializer_validate(u, d) # {}
        THEN ValidationError(op, u, d, ProcedureSerializer_validate(u, d))
        ELSE IF perform_create_denied(u, d) THEN PermissionDenied(op, u, d)
        ELSE NoResp

\* POST /procedures/
ProcedureCreate(u, d) ==
    /\ Len(procedures) < MaxProcedures
    /\ IF ProcedureCreate_refusal(u, d) # NoResp
       THEN /\ resp' = ProcedureCreate_refusal(u, d)
            /\ UNCHANGED procedures
       ELSE /\ procedures' = Append(procedures, ProcedureSerializer_create(d))
            /\ resp' = Ok("procedure_create", u, d, HTTP_201_CREATED,
                          {Len(procedures) + 1})
    /\ UNCHANGED <<patients, links, clinDeleted, retired, now>>

\* PATCH /procedures/{id}/ with patient_id and clinician_id, each NULL when
\* omitted (ModelViewSet.partial_update): the response that refuses the
\* request, NoResp when it is accepted.  get_object reads get_queryset; the
\* fields given are validated, then validate runs on the fields given, so an
\* omitted clinician is None there and differs from the profile.
ProcedureUpdate_refusal(u, id, d) ==
    LET op == "procedure_update"
        req == [id |-> id, patient_id |-> d.patient_id, clinician_id |-> d.clinician_id]
        perm == Scheduling_check_permissions(u)
        scoped == has_clinician_profile(u) /\ ~in_patient_admin_group(u)
        field_errors ==
            (IF d.patient_id = NULL \/ d.patient_id \in SoftDeleteManager(patients)
             THEN {} ELSE {"patient_id"})
            \cup (IF d.clinician_id = NULL \/ d.clinician_id \in Clinician_objects
                  THEN {} ELSE {"clinician_id"})
        errors ==
            (IF scoped /\ d.clinician_id # clinician_profile(u)
             THEN {"clinician_id"} ELSE {})
            \cup (IF scoped /\ d.patient_id # NULL /\ d.clinician_id # NULL
                     /\ ~has_link(d.patient_id, d.clinician_id)
                  THEN {"patient_id"} ELSE {})
    IN  IF perm # HTTP_200_OK THEN Denied(op, u, req, perm)
        ELSE IF id \notin ProcedureViewSet_get_queryset(u) THEN NotFound(op, u, req)
        ELSE IF field_errors # {} THEN ValidationError(op, u, req, field_errors)
        ELSE IF errors # {} THEN ValidationError(op, u, req, errors)
        ELSE NoResp

ProcedureUpdate(u, id, d) ==
    /\ IF ProcedureUpdate_refusal(u, id, d) # NoResp
       THEN /\ resp' = ProcedureUpdate_refusal(u, id, d)
            /\ UNCHANGED procedures
       ELSE /\ procedures' =
                 [procedures EXCEPT
                    ![id].patient = IF d.patient_id = NULL THEN @ ELSE d.patient_id,
                    ![id].clinician = IF d.clinician_id = NULL THEN @ ELSE d.clinician_id]
            /\ resp' = Ok("procedure_update", u,
                          [id |-> id, patient_id |-> d.patient_id,
                           clinician_id |-> d.clinician_id], HTTP_200_OK, {id})
    /\ UNCHANGED <<patients, links, clinDeleted, retired, now>>

\* procedure_type.is_active = False; procedure_type.save()
RetireType(t) ==
    /\ t \in ProcedureTypes \ retired
    /\ retired' = retired \cup {t}
    /\ resp' = NoResp
    /\ UNCHANGED <<patients, links, clinDeleted, procedures, now>>

(* ----------------------- scheduled-patients report -------------------- *)
\* A date parameter is absent, empty, a date ("date", a day number) or text
\* that is no date.
DateP(d) == [kind |-> "date", val |-> d]

\* ProcedureScheduledPatientsView._parse_and_validate_procedure_type:
\* 400, 404 or 200 (the type is q.procedure_type_id.val).
parse_and_validate_procedure_type(q) ==
    IF q.procedure_type_id.kind # "int" THEN HTTP_400_BAD_REQUEST
    ELSE IF q.procedure_type_id.val \notin ProcedureTypes THEN HTTP_404_NOT_FOUND
    ELSE HTTP_200_OK

\* _validate_date_range with from_date >= to_date refused: a range of one
\* day counts as reversed.
validate_date_range_fails_on_equal(q) ==
    /\ q.date_from.kind = "date"
    /\ q.date_to.kind = "date"
    /\ q.date_from.val >= q.date_to.val

\* ProcedureScheduledPatientsView._validate_date_range: TRUE when it raises.
validate_date_range_fails(q) ==
    /\ q.date_from.kind = "date"
    /\ q.date_to.kind = "date"
    /\ q.date_from.val > q.date_to.val

\* get_queryset without the role-based restriction at its end.
ScheduledPatients_get_queryset_unscoped(u, procedure_type) ==
    {i \in Procedure_objects :
        /\ procedures[i].procedure_type = procedure_type
        /\ procedures[i].status \in {"PLANNED", "SCHEDULED"}
        /\ ~patients[procedures[i].patient].deleted
        /\ procedures[i].clinician \notin clinDeleted}

\* get_queryset without status__in: procedures of every status.
ScheduledPatients_get_queryset_any_status(u, procedure_type) ==
    LET qs == {i \in Procedure_objects :
                  /\ procedures[i].procedure_type = procedure_type
                  /\ ~patients[procedures[i].patient].deleted
                  /\ procedures[i].clinician \notin clinDeleted}
    IN  IF has_clinician_profile(u) /\ ~in_patient_admin_group(u)
        THEN {i \in qs : procedures[i].clinician = clinician_profile(u)}
        ELSE qs

\* ProcedureScheduledPatientsView.get_queryset, before ordering
ScheduledPatients_get_queryset(u, procedure_type) ==
    LET qs == {i \in Procedure_objects :
                  /\ procedures[i].procedure_type = procedure_type
                  /\ procedures[i].status \in {"PLANNED", "SCHEDULED"}
                  /\ ~patients[procedures[i].patient].deleted
                  /\ procedures[i].clinician \notin clinDeleted}
    IN  IF has_clinician_profile(u) /\ ~in_patient_admin_group(u)
        THEN {i \in qs : procedures[i].clinician = clinician_profile(u)}
        ELSE qs

\* The form of ProcedureScheduledPatientsFilter: the fields whose value the
\* form refuses.
FilterForm_errors(q) ==
    (IF q.procedure_type.kind = "text"
        \/ (q.procedure_type.kind = "int" /\ q.procedure_type.val \notin ProcedureTypes)
     THEN {"procedure_type"} ELSE {})
    \cup (IF q.clinician.kind = "text"
             \/ (q.clinician.kind = "int" /\ q.clinician.val \notin Clinician_objects)
          THEN {"clinician"} ELSE {})
    \cup (IF q.date_from.kind = "text" THEN {"date_from"} ELSE {})
    \cup (IF q.date_to.kind = "text" THEN {"date_to"} ELSE {})
    \cup (IF q.department_id.kind = "text" THEN {"department_id"} ELSE {})

\* form.cleaned_data.get(name): the parameter when the form accepted a value
\* for it, Absent otherwise.
cleaned(q, name) ==
    IF name \in FilterForm_errors(q) \/ q[name].kind = "empty" THEN Absent
    ELSE q[name]

\* ProcedureScheduledPatientsFilter.filter_queryset: the keys of the error
\* it raises, {} when it filters.
FilterSet_errors(q) ==
    IF cleaned(q, "procedure_type").kind = "absent" THEN {"procedure_type"}
    ELSE IF /\ cleaned(q, "date_from").kind = "date"
            /\ cleaned(q, "date_to").kind = "date"
            /\ cleaned(q, "date_from").val > cleaned(q, "date_to").val
    THEN {"non_field_errors"}
    ELSE {}

\* FilterSet.filter_queryset: every cleaned value filters.
FilterSet_filter(q, qs) ==
    {i \in qs :
        /\ cleaned(q, "procedure_type").kind = "int"
              => procedures[i].procedure_type = cleaned(q, "procedure_type").val
        /\ cleaned(q, "date_from").kind = "date"
              => DateOf(procedures[i].scheduled_at) >= cleaned(q, "date_from").val
        /\ cleaned(q, "date_to").kind = "date"
              => DateOf(procedures[i].scheduled_at) <= cleaned(q, "date_to").val
        /\ cleaned(q, "department_id").kind = "int"
              => ClinicianDepartment[procedures[i].clinician]
                     = cleaned(q, "department_id").val
        /\ cleaned(q, "clinician").kind = "int"
              => procedures[i].clinician = cleaned(q, "clinician").val}

\* order_by("scheduled_at", "id") of a set of procedures
ProcedureBefore(a, b) ==
    \/ procedures[a].scheduled_at < procedures[b].scheduled_at
    \/ procedures[a].scheduled_at = procedures[b].scheduled_at /\ a < b

order_by_scheduled_at_id(S) ==
    CHOOSE seq \in [1..Cardinality(S) -> S] :
        \A i, j \in DOMAIN seq : i < j => ProcedureBefore(seq[i], seq[j])

\* ProcedureScheduledPatientsView.filter_queryset: for a clinician who is
\* no admin the view drops clinician_id and builds the filter set itself, so
\* the form's errors are not raised; otherwise DjangoFilterBackend builds it
\* and raises them.  The keys of the error raised, {} when it filters.
View_filter_errors(u, q) ==
    LET is_scoped == has_clinician_profile(u) /\ ~in_patient_admin_group(u)
        params == IF is_scoped THEN [q EXCEPT !.clinician_id = Absent] ELSE q
    IN  IF ~is_scoped /\ FilterForm_errors(params) # {}
        THEN FilterForm_errors(params)
        ELSE FilterSet_errors(params)

View_filter_queryset(u, q, qs) ==
    LET is_scoped == has_clinician_profile(u) /\ ~in_patient_admin_group(u)
        params == IF is_scoped THEN [q EXCEPT !.clinician_id = Absent] ELSE q
    IN  FilterSet_filter(params, qs)

\* ProcedureScheduledPatientsView.list : the response of
\* GET /procedures/scheduled-patients/
ScheduledPatients_response(u, q) ==
    LET op == "scheduled_patients"
        perm == Scheduling_check_permissions(u)
        parsed == parse_and_validate_procedure_type(q)
        base == ScheduledPatients_get_queryset(u, q.procedure_type_id.val)
        qs == order_by_scheduled_at_id(View_filter_queryset(u, q, base))
    IN  IF perm # HTTP_200_OK THEN Denied(op, u, q, perm)
        ELSE IF parsed = HTTP_400_BAD_REQUEST
        THEN ValidationError(op, u, q, {"procedure_type_id"})
        ELSE IF parsed = HTTP_404_NOT_FOUND THEN NotFound(op, u, q)
        ELSE IF validate_date_range_fails(q)
        THEN ValidationError(op, u, q, {"non_field_errors"})
        ELSE IF View_filter_errors(u, q) # {}
        THEN ValidationError(op, u, q, View_filter_errors(u, q))
        ELSE Response(op, u, q, HTTP_200_OK, {}, {},
                      paginate_queryset(qs, q.limit, q.offset), Len(qs), 0)

ScheduledPatients(u, q) ==
    /\ resp' = ScheduledPatients_response(u, q)
    /\ UNCHANGED <<store, now>>

(* -------------------------------- clock ------------------------------- *)
\* Time passes between requests.
Tick ==
    /\ now < MaxClock
    /\ now' = now + 1
    /\ resp' = NoResp
    /\ UNCHANGED store

(* ------------------------------- Init --------------------------------- *)
Init ==
    /\ patients = <<>>
    /\ links = EmptyBag
    /\ clinDeleted = {}
    /\ procedures = <<>>
    /\ retired = {}
    /\ now = 2
    /\ resp = NoResp

(* ------------------------------ request sets -------------------------- *)
Jan == <<"J", "a", "n">>
Bo == <<"B", "o">>
NoSearch == <<>>
PatientIds == 1..(MaxPatients + 1)
ProcedureIds == 1..(MaxProcedures + 1)

\* A payload of POST /procedures/
Payload(p, t, c, at, st) ==
    [patient_id |-> p, procedure_type_id |-> t, clinician_id |-> c, name |-> "",
     scheduled_at |-> at, duration_minutes |-> NULL, status |-> st]

\* The query string of GET /procedures/scheduled-patients/
Query(tid, t, c, cid, dep) ==
    [procedure_type_id |-> tid, procedure_type |-> t, clinician |-> c,
     clinician_id |-> cid, department_id |-> dep, date_from |-> Absent,
     date_to |-> Absent, limit |-> Absent, offset |-> Absent]

(* --------------------------- specifications --------------------------- *)
\* Requests are handled one at a time: a handler runs when no response is
\* outstanding, and Deliver hands the response to the client.
Idle == resp = NoResp

Deliver ==
    /\ resp # NoResp
    /\ resp' = NoResp
    /\ UNCHANGED <<store, now>>

\* Patients and care relationships: the patient endpoints.
NextPatients ==
    \/ \E u \in {"doc", "admin"}, q \in {NoSearch, <<"j", "a">>} :
           Idle /\ PatientList(u, q)
    \/ \E u \in {"doc", "admin"}, id \in PatientIds :
           Idle /\ PatientRetrieve(u, id, NoSearch)
    \/ Idle /\ PatientCreate("admin", Jan, <<>>, 0)
    \/ \E id \in {1} : Idle /\ PatientUpdate("admin", id, Bo)
    \/ \E id \in PatientIds : Idle /\ PatientDestroy("admin", id)
    \/ \E p \in PatientIds, c \in {1, 2} : Idle /\ CreateLink(p, c)
    \/ \E l \in BagToSet(links) : Idle /\ EndLink(l)
    \/ \E l \in BagToSet(links) : Idle /\ DeleteLink(l)
    \/ Idle /\ DeleteClinician(1)
    \/ Deliver

SpecPatients == Init /\ [][NextPatients]_vars

\* The count report over a changing store.
NextCounts ==
    \/ \E u \in {"doc", "admin"}, id \in Departments,
          dep \in {Absent, IntP(1)}, cid \in {Absent, IntP(3), TextP} :
           Idle /\ ClinicianPatientCounts(u, id, dep, cid, Absent, Absent)
    \/ Idle /\ PatientCreate("admin", Jan, <<>>, 0)
    \/ \E id \in PatientIds : Idle /\ PatientDestroy("admin", id)
    \/ \E p \in PatientIds, c \in {1, 3} : Idle /\ CreateLink(p, c)
    \/ \E l \in BagToSet(links) : Idle /\ EndLink(l)
    \/ \E l \in BagToSet(links) : Idle /\ DeleteLink(l)
    \/ Idle /\ DeleteClinician(3)
    \/ Deliver

SpecCounts == Init /\ [][NextCounts]_vars

\* The procedure endpoints.
NextProcedures ==
    \/ Idle /\ PatientCreate("admin", Jan, <<>>, 0)
    \/ \E p \in PatientIds : Idle /\ CreateLink(p, 1)
    \/ \E u \in {"admin", "doc", "chief"}, p \in PatientIds, c \in {1, 2} :
           Idle /\ ProcedureCreate(u, Payload(p, 1, c, now, "PLANNED"))
    \/ \E u \in {"admin", "doc", "chief", "guest"} : Idle /\ ProcedureList(u)
    \/ \E u \in {"admin", "doc", "chief"}, id \in ProcedureIds :
           Idle /\ ProcedureRetrieve(u, id)
    \/ \E u \in {"doc", "chief"}, id \in ProcedureIds : Idle /\ ProcedureDestroy(u, id)
    \/ Deliver

SpecProcedures == Init /\ [][NextProcedures]_vars

\* A clinician's detail requests for patients and procedures.
NextDetail ==
    \/ Idle /\ PatientCreate("admin", Jan, <<>>, 0)
    \/ \E id \in PatientIds : Idle /\ PatientDestroy("admin", id)
    \/ \E p \in PatientIds, c \in {1, 2} : Idle /\ CreateLink(p, c)
    \/ \E l \in BagToSet(links) : Idle /\ EndLink(l)
    \/ \E l \in BagToSet(links) : Idle /\ DeleteLink(l)
    \/ \E c \in {1, 2} :
           Idle /\ ProcedureCreate("admin", Payload(1, 1, c, now, "PLANNED"))
    \/ \E id \in ProcedureIds : Idle /\ ProcedureDestroy("doc", id)
    \/ \E id \in PatientIds : Idle /\ PatientRetrieve("doc", id, NoSearch)
    \/ \E id \in ProcedureIds : Idle /\ ProcedureRetrieve("doc", id)
    \/ Deliver

SpecDetail == Init /\ [][NextDetail]_vars

\* A clinician's requests to the two reports.
NextReports ==
    \/ Idle /\ PatientCreate("admin", Jan, <<>>, 0)
    \/ \E p \in PatientIds, c \in {1, 3} : Idle /\ CreateLink(p, c)
    \/ \E p \in PatientIds, c \in {1, 2} :
           Idle /\ ProcedureCreate("admin", Payload(p, 1, c, now, "PLANNED"))
    \/ \E id \in Departments, dep \in {Absent, IntP(1), IntP(2)},
          cid \in {Absent, IntP(3), TextP} :
           Idle /\ ClinicianPatientCounts("doc", id, dep, cid, Absent, Absent)
    \/ \E t \in {IntP(1), Absent}, c \in {Absent, IntP(1), IntP(2)},
          cid \in {Absent, IntP(2)}, dep \in {Absent, IntP(2)} :
           Idle /\ ScheduledPatients("doc", Query(IntP(1), t, c, cid, dep))
    \/ Deliver

SpecReports == Init /\ [][NextReports]_vars

(* ------------------------- terms of the properties -------------------- *)
\* The properties below speak of principals and rows in the words of the
\* access rules, without the operators of the handlers.
Owns(u, c) == ClinicianUser[c] = u
ClinicianOnly(u) ==
    /\ u # "anon"
    /\ u \notin PatientAdminGroup
    /\ \E c \in Clinicians : Owns(u, c)
AdminAndClinician(u) ==
    /\ u \in PatientAdminGroup
    /\ \E c \in Clinicians : Owns(u, c)

\* A relationship row that is stored as not soft-deleted and has no end.
LiveRelationship(l) == l.relationship_end = NULL /\ ~l.deleted

\* The non-deleted patients with a live relationship to a clinician of u.
LinkedPatients(u) ==
    {p \in DOMAIN patients :
        /\ ~patients[p].deleted
        /\ \E l \in BagToSet(links) :
              l.patient = p /\ Owns(u, l.clinician) /\ LiveRelationship(l)}

PatientReads == {"patient_list", "patient_detail"}

(* ------------------------------ patients ------------------------------ *)
\* C1: the unfiltered patient list of a clinician who is no admin holds
\* exactly the non-deleted patients that have at least one relationship to
\* the clinician's own profile with no end and not soft-deleted, each once.
C1_ClinicianListIsLiveLinkedPatients ==
    (/\ resp.op = "patient_list"
     /\ resp.status = HTTP_200_OK
     /\ ClinicianOnly(resp.user)
     /\ resp.req.search = NoSearch)
    => /\ resp.ids = LinkedPatients(resp.user)
       /\ resp.count = Cardinality(LinkedPatients(resp.user))

\* C9: a principal whose clinician profile is soft-deleted gets no patient
\* from the patient list or the patient detail.
C9_DeletedProfileSeesNoPatients ==
    (/\ resp.op \in PatientReads
     /\ ClinicianOnly(resp.user)
     /\ \A c \in Clinicians : Owns(resp.user, c) => c \in clinDeleted)
    => resp.ids = {}

\* C10: once a patient is soft-deleted the row stays stored and deleted, and
\* no response of a patient endpoint produced from then on carries it, for
\* either role; its detail is not found.
C10_step ==
    \A p \in DOMAIN patients :
        patients[p].deleted =>
            /\ p \in DOMAIN patients'
            /\ patients'[p] = patients[p]
            /\ p \notin resp'.ids
            /\ (resp'.op = "patient_detail" /\ resp'.req.id = p
                  /\ resp'.status \notin {HTTP_401_UNAUTHORIZED, HTTP_403_FORBIDDEN})
               => resp'.status = HTTP_404_NOT_FOUND
\* C10, over every step: a soft-deleted patient stays stored and hidden.
C10_SoftDeletedPatientStaysHidden == [][C10_step]_vars

\* An admin has soft-deleted a patient and now asks for its detail.
C10_witness ==
    /\ resp.op = "patient_detail"
    /\ resp.user \in PatientAdminGroup
    /\ resp.req.id \in DOMAIN patients
    /\ patients[resp.req.id].deleted
    /\ resp.status = HTTP_404_NOT_FOUND

(* --------------------------- patient counts --------------------------- *)
CountReport == "clinician_patient_counts"

\* The distinct non-deleted patients with a live relationship to clinician c.
LivePatientsOf(c) ==
    {p \in DOMAIN patients :
        /\ ~patients[p].deleted
        /\ \E l \in BagToSet(links) :
              l.patient = p /\ l.clinician = c /\ LiveRelationship(l)}

\* C4: every row of the count report gives the number of distinct patients
\* joined to the row's clinician by a relationship that has no end, is not
\* soft-deleted and whose patient is not soft-deleted; several qualifying
\* relationship rows of one patient count once.
C4_PatientCountIsDistinctLivePatients ==
    (resp.op = CountReport /\ resp.status = HTTP_200_OK)
    => \A i \in DOMAIN resp.rows :
           resp.rows[i].patient_count =
               Cardinality(LivePatientsOf(resp.rows[i].clinician))

\* A row counts 1 for a clinician joined to one patient by two qualifying
\* relationship rows.
C4_witness ==
    /\ resp.op = CountReport
    /\ resp.status = HTTP_200_OK
    /\ \E i \in DOMAIN resp.rows :
          /\ resp.rows[i].patient_count = 1
          /\ \E l \in BagToSet(links) :
                /\ l.clinician = resp.rows[i].clinician
                /\ LiveRelationship(l)
                /\ ~patients[l.patient].deleted
                /\ CopiesIn(l, links) >= 2

\* The request names no query parameter.
NoCountParams(req) ==
    /\ req.department = Absent
    /\ req.clinician_id = Absent
    /\ req.limit = Absent
    /\ req.offset = Absent

\* C7: a clinician who is no admin and asks for the count report of their
\* own department, named in the path and with no query parameter, is
\* permitted and gets a total of 1 and one row, their own.
C7_OwnDepartmentByPathIsPermitted ==
    (/\ resp.op = CountReport
     /\ ClinicianOnly(resp.user)
     /\ NoCountParams(resp.req)
     /\ \E c \in Clinicians \ clinDeleted :
           Owns(resp.user, c) /\ ClinicianDepartment[c] = resp.req.department_id)
    => /\ resp.status = HTTP_200_OK
       /\ resp.count = 1
       /\ Len(resp.rows) = 1
       /\ Owns(resp.user, resp.rows[1].clinician)
       /\ resp.rows[1].patient_count =
              Cardinality(LivePatientsOf(resp.rows[1].clinician))

\* C8: a clinician who is no admin and names another, existing department in
\* the path is refused with 403, whatever the query parameters, and is told
\* nothing of that department.
C8_OtherDepartmentByPathIsForbidden ==
    (/\ resp.op = CountReport
     /\ ClinicianOnly(resp.user)
     /\ resp.req.department_id \in Departments
     /\ \A c \in Clinicians :
           Owns(resp.user, c) => ClinicianDepartment[c] # resp.req.department_id)
    => /\ resp.status = HTTP_403_FORBIDDEN
       /\ resp.department = 0
       /\ resp.rows = <<>>

(* ------------------------------ procedures ---------------------------- *)
\* The procedures the access rules let u read: all that are not deleted
\* for an admin, those of u's own clinician profile for a clinician, none
\* for anyone else.
ProcedureScope(u) ==
    {i \in DOMAIN procedures :
        /\ ~procedures[i].deleted
        /\ \/ u \in PatientAdminGroup
           \/ Owns(u, procedures[i].clinician)}

\* C2: the procedure list holds exactly the procedures of the principal's
\* scope, and the procedure detail answers 200 exactly for those.
C2_ProcedureReadsFollowScope ==
    /\ (resp.op = "procedure_list" /\ resp.status = HTTP_200_OK)
       => resp.ids = ProcedureScope(resp.user)
    /\ (resp.op = "procedure_detail"
          /\ resp.status \in {HTTP_200_OK, HTTP_404_NOT_FOUND})
       => (resp.status = HTTP_200_OK <=> resp.req.id \in ProcedureScope(resp.user))

\* What the body of a response says, apart from who asked.
Outcome(r) ==
    [status |-> r.status, err |-> r.err, ids |-> r.ids, rows |-> r.rows,
     count |-> r.count]

\* C3: a principal who is admin and clinician gets what an admin without a
\* clinician profile gets for the same request, on the patient list, the
\* count report, the procedure list and detail, the scheduled-patients
\* report and the creation of a procedure.
C3_AdminWinsEverywhere ==
    AdminAndClinician(resp.user) =>
        /\ resp.op = "patient_list"
           => Outcome(resp) = Outcome(PatientList_response("admin", resp.req.search))
        /\ resp.op = CountReport
           => Outcome(resp) =
                Outcome(ClinicianPatientCounts_response(
                            "admin", resp.req.department_id, resp.req.department,
                            resp.req.clinician_id, resp.req.limit, resp.req.offset))
        /\ resp.op = "scheduled_patients"
           => Outcome(resp) = Outcome(ScheduledPatients_response("admin", resp.req))
        /\ resp.op = "procedure_list"
           => Outcome(resp) = Outcome(ProcedureList_response("admin"))
        /\ resp.op = "procedure_detail"
           => Outcome(resp) = Outcome(ProcedureRetrieve_response("admin", resp.req.id))
        /\ resp.op = "procedure_create"
           => IF ProcedureCreate_refusal("admin", resp.req) = NoResp
              THEN resp.status = HTTP_201_CREATED
              ELSE Outcome(resp) = Outcome(ProcedureCreate_refusal("admin", resp.req))

(* -------------------------- out-of-scope detail ----------------------- *)
\* The patients in the scope of u: not deleted, and joined to a clinician
\* profile of u that is not deleted by a live relationship.
PatientScope(u) ==
    {p \in DOMAIN patients :
        /\ ~patients[p].deleted
        /\ \E l \in BagToSet(links) :
              /\ l.patient = p
              /\ Owns(u, l.clinician)
              /\ l.clinician \notin clinDeleted
              /\ LiveRelationship(l)}

\* C5: a clinician who is no admin and asks for the detail of a patient or a
\* procedure outside their scope gets 404 with the body of an id that no row
\* has, and is never answered 403.
C5_OutOfScopeDetailIsNotFound ==
    ClinicianOnly(resp.user) =>
        /\ resp.op = "patient_detail" =>
              /\ resp.status # HTTP_403_FORBIDDEN
              /\ resp.req.id \notin PatientScope(resp.user)
                 => /\ resp.status = HTTP_404_NOT_FOUND
                    /\ Outcome(resp) =
                         Outcome(PatientRetrieve_response(
                                     resp.user, Len(patients) + 1, NoSearch))
        /\ resp.op = "procedure_detail" =>
              /\ resp.status # HTTP_403_FORBIDDEN
              /\ resp.req.id \notin ProcedureScope(resp.user)
                 => /\ resp.status = HTTP_404_NOT_FOUND
                    /\ Outcome(resp) =
                         Outcome(ProcedureRetrieve_response(
                                     resp.user, Len(procedures) + 1))

(* ------------------------------- reports ------------------------------ *)
\* C6: whatever query parameters a clinician who is no admin sends, every
\* row of the count report is the row of their own clinician profile and
\* every row of the scheduled-patients report is a procedure of theirs.
C6_ReportsShowOwnRowsOnly ==
    ClinicianOnly(resp.user) =>
        /\ resp.op = CountReport
           => \A i \in DOMAIN resp.rows : Owns(resp.user, resp.rows[i].clinician)
        /\ resp.op = "scheduled_patients"
           => \A i \in DOMAIN resp.rows :
                  Owns(resp.user, procedures[resp.rows[i]].clinician)

\* A clinician asks the scheduled-patients report for another clinician's
\* procedures, which exist, and gets rows.
C6_witness ==
    /\ resp.op = "scheduled_patients"
    /\ ClinicianOnly(resp.user)
    /\ resp.req.clinician_id.kind = "int"
    /\ ~Owns(resp.user, resp.req.clinician_id.val)
    /\ \E i \in DOMAIN procedures :
          /\ procedures[i].clinician = resp.req.clinician_id.val
          /\ procedures[i].procedure_type = resp.req.procedure_type_id.val
    /\ resp.status = HTTP_200_OK
    /\ Len(resp.rows) >= 1

(* -------------------------- ended relationships ----------------------- *)
\* Relationships are created and ended while the clock advances; the
\* clinician reads the patient list, admin and clinician the count report.
NextEnded ==
    \/ Idle /\ PatientCreate("admin", Jan, <<>>, 0)
    \/ \E p \in PatientIds, c \in {1, 2} : Idle /\ CreateLink(p, c)
    \/ \E l \in BagToSet(links) : Idle /\ EndLink(l)
    \/ Idle /\ Tick
    \/ Idle /\ PatientList("doc", NoSearch)
    \/ \E u \in {"doc", "admin"} :
          Idle /\ ClinicianPatientCounts(u, 1, IntP(1), Absent, Absent, Absent)
    \/ Deliver

SpecEnded == Init /\ [][NextEnded]_vars

\* The patients joined to clinician c by a relationship row without an end.
PatientsWithOpenLink(c) ==
    {p \in DOMAIN patients :
        \E l \in BagToSet(links) :
            l.patient = p /\ l.clinician = c /\ l.relationship_end = NULL}

\* C11: a relationship with an end date shows its patient to nobody and
\* counts for nobody: the patient list of a clinician holds only patients
\* with a relationship to them that has no end, and a row of the count
\* report counts no more patients than have such a relationship.
C11_EndedRelationshipGrantsNothing ==
    /\ (resp.op = "patient_list" /\ ClinicianOnly(resp.user))
       => \A p \in resp.ids :
              \E c \in Clinicians : Owns(resp.user, c) /\ p \in PatientsWithOpenLink(c)
    /\ resp.op = CountReport
       => \A i \in DOMAIN resp.rows :
              resp.rows[i].patient_count
                  <= Cardinality(PatientsWithOpenLink(resp.rows[i].clinician))

\* The clinician lists their patients right after their only relationship
\* to a stored patient ended; nothing is soft-deleted.
C11_witness ==
    /\ resp.op = "patient_list"
    /\ resp.user = "doc"
    /\ resp.status = HTTP_200_OK
    /\ resp.ids = {}
    /\ \E l \in BagToSet(links) :
          /\ Owns("doc", l.clinician)
          /\ l.relationship_end = now
          /\ ~l.deleted
          /\ ~patients[l.patient].deleted
          /\ l.clinician \notin clinDeleted

(* ----------------------------- patient writes ------------------------- *)
\* Admin, clinician and a principal with no role send the three writes; the
\* clinician is linked to patients.
NextWrites ==
    \/ \E u \in {"admin", "doc", "guest"} : Idle /\ PatientCreate(u, Jan, <<>>, 0)
    \/ \E u \in {"admin", "doc", "guest"}, id \in PatientIds :
          Idle /\ PatientUpdate(u, id, Bo)
    \/ \E u \in {"admin", "doc", "guest"}, id \in PatientIds :
          Idle /\ PatientDestroy(u, id)
    \/ \E p \in PatientIds : Idle /\ CreateLink(p, 1)
    \/ Deliver

SpecWrites == Init /\ [][NextWrites]_vars

PatientWrites == {"patient_create", "patient_update", "patient_destroy"}

\* C12, one step: a patient write asked by an authenticated principal who
\* is no admin is answered 403 and changes nothing stored; a write that
\* changes the patients is an admin's.
C12_step ==
    /\ (/\ resp'.op \in PatientWrites
        /\ resp'.user # "anon"
        /\ resp'.user \notin PatientAdminGroup)
       => /\ resp'.status = HTTP_403_FORBIDDEN
          /\ store' = store
    /\ patients' # patients
       => /\ resp'.op \in PatientWrites
          /\ resp'.user \in PatientAdminGroup

\* C12: create, update and soft-delete of a patient succeed only for an
\* admin; from a clinician, even one linked to the patient, or from a
\* principal with neither role they are refused with 403 and the store is
\* left unchanged.
C12_PatientWritesAreAdminOnly == [][C12_step]_vars

\* A clinician asked to update a patient linked to them and was refused.
C12_witness ==
    /\ resp.op = "patient_update"
    /\ resp.user = "doc"
    /\ resp.req.id \in LinkedPatients("doc")
    /\ resp.status = HTTP_403_FORBIDDEN

(* ---------------------- creation by a clinician ----------------------- *)
\* Patients are joined to clinicians 1 and 2; the clinician of profile 1
\* asks for procedures naming either clinician and any patient id.
NextCreate ==
    \/ Idle /\ PatientCreate("admin", Jan, <<>>, 0)
    \/ \E p \in PatientIds, c \in {1, 2} : Idle /\ CreateLink(p, c)
    \/ \E l \in BagToSet(links) : Idle /\ EndLink(l)
    \/ \E p \in PatientIds, c \in {1, 2} :
          Idle /\ ProcedureCreate("doc", Payload(p, 1, c, now, "PLANNED"))
    \/ Deliver

SpecCreate == Init /\ [][NextCreate]_vars

\* The payload names a stored, non-deleted patient and clinician.
NamesStoredRows(d) ==
    /\ d.patient_id \in DOMAIN patients
    /\ ~patients[d.patient_id].deleted
    /\ d.clinician_id \in Clinicians \ clinDeleted

\* C13, one step: a creation by a clinician who is no admin is never
\* answered 403; naming another clinician it is answered 400 with the key
\* clinician_id, naming a patient the principal has no live relationship
\* with it is answered 400 with the key patient_id, and a refused creation
\* stores no procedure.
C13_step ==
    (/\ resp'.op = "procedure_create"
     /\ ClinicianOnly(resp'.user)
     /\ NamesStoredRows(resp'.req))
    => /\ resp'.status # HTTP_403_FORBIDDEN
       /\ ~Owns(resp'.user, resp'.req.clinician_id)
          => /\ resp'.status = HTTP_400_BAD_REQUEST
             /\ "clinician_id" \in resp'.err
       /\ resp'.req.patient_id \notin LinkedPatients(resp'.user)
          => /\ resp'.status = HTTP_400_BAD_REQUEST
             /\ "patient_id" \in resp'.err
       /\ resp'.status = HTTP_400_BAD_REQUEST => procedures' = procedures

\* C13: the creation of a procedure by a clinician for another clinician or
\* for a patient they are not linked to fails with 400 on the clinician
\* field and on the patient field respectively, never with 403, and stores
\* nothing.
C13_ClinicianCreationFailsAsValidation == [][C13_step]_vars

(* ------------------- procedures stored by a clinician ----------------- *)
\* Admin and clinician create procedures, the clinician rewrites patient and
\* clinician of those they can read, while relationships come and go and
\* patients are soft-deleted.
NextOwn ==
    \/ Idle /\ PatientCreate("admin", Jan, <<>>, 0)
    \/ Idle /\ PatientDestroy("admin", 2)
    \/ \E p \in PatientIds, c \in {1, 2} : Idle /\ CreateLink(p, c)
    \/ \E l \in BagToSet(links) : Idle /\ EndLink(l)
    \/ \E l \in BagToSet(links) : Idle /\ DeleteLink(l)
    \/ Idle /\ ProcedureCreate("admin", Payload(1, 1, 1, now, "PLANNED"))
    \/ \E p \in {1, 2}, c \in {1, 2} :
          Idle /\ ProcedureCreate("doc", Payload(p, 1, c, now, "PLANNED"))
    \/ \E p \in {NULL, 2}, c \in {NULL, 1, 2} :
          Idle /\ ProcedureUpdate("doc", 1, [patient_id |-> p, clinician_id |-> c])
    \/ Deliver

SpecOwn == Init /\ [][NextOwn]_vars

\* Row r names a clinician of u and a non-deleted patient joined to that
\* clinician by a live relationship.
OwnAndLinked(u, r) ==
    /\ Owns(u, r.clinician)
    /\ ~patients[r.patient].deleted
    /\ \E l \in BagToSet(links) :
          l.patient = r.patient /\ l.clinician = r.clinician /\ LiveRelationship(l)

\* C14, one step: a procedure a clinician who is no admin stores, by
\* creation or by rewriting its patient or clinician, names their own
\* clinician and a non-deleted patient joined to it by a live relationship
\* at that moment.
C14_step ==
    ClinicianOnly(resp'.user) =>
        /\ Len(procedures') > Len(procedures)
           => OwnAndLinked(resp'.user, procedures'[Len(procedures')])
        /\ \A i \in DOMAIN procedures :
              (\/ procedures'[i].patient # procedures[i].patient
               \/ procedures'[i].clinician # procedures[i].clinician)
              => OwnAndLinked(resp'.user, procedures'[i])

\* C14: every procedure stored by a clinician names the clinician's own
\* profile and a patient linked to it when it was stored.
C14_ClinicianStoresOwnLinkedOnly == [][C14_step]_vars

\* The clinician has created a procedure.
C14_witness ==
    /\ resp.op = "procedure_create"
    /\ resp.user = "doc"
    /\ resp.status = HTTP_201_CREATED
    /\ \E i \in resp.ids : OwnAndLinked("doc", procedures[i])

(* --------------------------- scheduled_at rule ------------------------ *)
\* Admin and clinician create procedures of every status with scheduled_at
\* omitted, before, at and after the clock reading, while the clock advances.
NextTime ==
    \/ Idle /\ PatientCreate("admin", Jan, <<>>, 0)
    \/ Idle /\ CreateLink(1, 1)
    \/ Idle /\ Tick
    \/ \E u \in {"admin", "doc"}, at \in {NULL} \cup 1..MaxClock, st \in ProcedureStatus :
          Idle /\ ProcedureCreate(u, Payload(1, 1, 1, at, st))
    \/ Deliver

SpecTime == Init /\ [][NextTime]_vars

\* Apart from scheduled_at and status the creation is one the principal may
\* make: stored rows, an active type and, for a clinician, their own profile
\* and a patient linked to it.
CreatableBut_scheduled_at(u, d) ==
    /\ NamesStoredRows(d)
    /\ d.procedure_type_id \in ProcedureTypes \ retired
    /\ \/ u \in PatientAdminGroup
       \/ /\ ClinicianOnly(u)
          /\ Owns(u, d.clinician_id)
          /\ d.patient_id \in LinkedPatients(u)

ActiveStatuses == {"PLANNED", "SCHEDULED"}

\* C15: for admin and clinician, a creation with status PLANNED or SCHEDULED
\* is answered 400 with the key scheduled_at when scheduled_at is missing or
\* before the clock reading and is accepted when it is at or after it; with
\* any other status a scheduled_at in the past is accepted.
C15_ScheduledAtRule ==
    (resp.op = "procedure_create" /\ CreatableBut_scheduled_at(resp.user, resp.req))
    => LET at == resp.req.scheduled_at
           rejected == resp.status = HTTP_400_BAD_REQUEST /\ "scheduled_at" \in resp.err
       IN  /\ (resp.req.status \in ActiveStatuses /\ at = NULL) => rejected
           /\ (resp.req.status \in ActiveStatuses /\ at # NULL /\ at < now) => rejected
           /\ (resp.req.status \in ActiveStatuses /\ at # NULL /\ at >= now)
              => resp.status = HTTP_201_CREATED
           /\ (resp.req.status \in ProcedureStatus \ ActiveStatuses /\ at # NULL)
              => resp.status = HTTP_201_CREATED

\* A clinician's PLANNED creation one instant in the past was refused on
\* scheduled_at alone.
C15_witness ==
    /\ resp.op = "procedure_create"
    /\ resp.user = "doc"
    /\ CreatableBut_scheduled_at(resp.user, resp.req)
    /\ resp.req.status = "PLANNED"
    /\ resp.req.scheduled_at = now - 1
    /\ resp.status = HTTP_400_BAD_REQUEST
    /\ resp.err = {"scheduled_at"}

(* ----------------------------- retired types ------------------------- *)
\* Types 1 and 2 are retired while admin and clinician create procedures of
\* them and read the procedure list and the scheduled-patients report.
TypeQuery(t) == Query(IntP(t), IntP(t), Absent, Absent, Absent)

NextRetire ==
    \/ Idle /\ PatientCreate("admin", Jan, <<>>, 0)
    \/ Idle /\ CreateLink(1, 1)
    \/ \E t \in {1, 2} : Idle /\ RetireType(t)
    \/ \E u \in {"admin", "doc"}, t \in {1, 2} :
          Idle /\ ProcedureCreate(u, Payload(1, t, 1, now, "PLANNED"))
    \/ \E u \in {"admin", "doc"} : Idle /\ ProcedureList(u)
    \/ \E u \in {"admin", "doc"}, t \in {1, 2} : Idle /\ ScheduledPatients(u, TypeQuery(t))
    \/ Deliver

SpecRetire == Init /\ [][NextRetire]_vars

\* C16, one step: a creation that names a retired type is answered 400 with
\* the key procedure_type_id and stores nothing, for admin and clinician; a
\* step that retires a type leaves the procedures as they are and changes no
\* answer of the procedure list or of the scheduled-patients report.
C16_step ==
    /\ (/\ resp'.op = "procedure_create"
        /\ resp'.user \in {"admin", "doc"}
        /\ resp'.req.procedure_type_id \in retired)
       => /\ resp'.status = HTTP_400_BAD_REQUEST
          /\ "procedure_type_id" \in resp'.err
          /\ procedures' = procedures
    /\ retired' # retired
       => /\ procedures' = procedures
          /\ \A u \in {"admin", "doc"} :
                /\ ProcedureList_response(u)' = ProcedureList_response(u)
                /\ \A t \in {1, 2} :
                      ScheduledPatients_response(u, TypeQuery(t))'
                          = ScheduledPatients_response(u, TypeQuery(t))

NextDefaults ==
    \/ Idle /\ PatientCreate("admin", Jan, <<>>, 0)
    \/ \E t \in ProcedureTypes, dur \in {NULL, 0, 45}, nm \in {"", "Echo"} :
          Idle /\ ProcedureCreate("admin",
                      [Payload(1, t, 1, now, "PLANNED")
                          EXCEPT !.duration_minutes = dur, !.name = nm])
    \/ Deliver

SpecDefaults == Init /\ [][NextDefaults]_vars

\* C17: a procedure created without duration_minutes stores the default of
\* its type, whatever it is (0 included; unset exactly when the default is
\* null); a duration given is stored as given; without name the stored name
\* is the name of the type.
C17_CreationDefaults ==
    (resp.op = "procedure_create" /\ resp.status = HTTP_201_CREATED)
    => \A i \in resp.ids :
          LET t == resp.req.procedure_type_id
          IN  /\ resp.req.duration_minutes = NULL
                 => procedures[i].duration_minutes = ProcedureTypeDefaultDuration[t]
              /\ resp.req.duration_minutes # NULL
                 => procedures[i].duration_minutes = resp.req.duration_minutes
              /\ resp.req.name = ""
                 => procedures[i].name = ProcedureTypeName[t]
              /\ resp.req.name # ""
                 => procedures[i].name = resp.req.name

(* ------------------ parameters of the scheduled report ---------------- *)
\* Admin and clinician ask for the report with procedure_type_id absent,
\* empty, no integer, the id of a type and an id no type has, with and
\* without the parameter procedure_type.
NextScheduled ==
    \/ Idle /\ PatientCreate("admin", Jan, <<>>, 0)
    \/ \E c \in {1, 2} :
          Idle /\ ProcedureCreate("admin", Payload(1, 1, c, now, "PLANNED"))
    \/ \E u \in {"admin", "doc"},
          tid \in {Absent, EmptyP, TextP, IntP(1), IntP(Cardinality(ProcedureTypes) + 1)},
          t \in {Absent, IntP(1)} :
          Idle /\ ScheduledPatients(u, Query(tid, t, Absent, Absent, Absent))
    \/ Deliver

SpecScheduled == Init /\ [][NextScheduled]_vars

\* C18: the scheduled-patients report answers 400 when procedure_type_id is
\* missing or no integer, 404 when no type has that id, and 200 when it is
\* the id of a type, whatever other parameters are absent.
C18_OnlyProcedureTypeIdIsRequired ==
    (resp.op = "scheduled_patients" /\ resp.user \in {"admin", "doc"})
    => LET tid == resp.req.procedure_type_id
       IN  /\ tid.kind # "int" => resp.status = HTTP_400_BAD_REQUEST
           /\ (tid.kind = "int" /\ tid.val \notin ProcedureTypes)
              => resp.status = HTTP_404_NOT_FOUND
           /\ (tid.kind = "int" /\ tid.val \in ProcedureTypes)
              => resp.status = HTTP_200_OK

(* ------------------------ overrides of the scope ---------------------- *)
\* C19: on the scheduled-patients report the parameters clinician and
\* clinician_id of a clinician who is no admin have no effect: the answer is
\* that of the same request without them.
C19_ClinicianOverridesAreStripped ==
    (resp.op = "scheduled_patients" /\ ClinicianOnly(resp.user))
    => Outcome(resp) =
          Outcome(ScheduledPatients_response(
                      resp.user,
                      [resp.req EXCEPT !.clinician = Absent, !.clinician_id = Absent]))

\* C20: on the count report the parameter clinician_id of a clinician who
\* is no admin has no effect: a permitted request is answered as the same
\* request without it, and never with a validation error.
C20_ClinicianIdIsIgnoredOnCounts ==
    (/\ resp.op = CountReport
     /\ ClinicianOnly(resp.user)
     /\ resp.status # HTTP_403_FORBIDDEN)
    => LET without == ClinicianPatientCounts_response(
                          resp.user, resp.req.department_id, resp.req.department,
                          Absent, resp.req.limit, resp.req.offset)
       IN  /\ Outcome(resp) = Outcome(without)
           /\ resp.department = without.department
           /\ resp.status # HTTP_400_BAD_REQUEST

\* A clinician named a colleague of their department in clinician_id and got
\* their own row.
C20_witness ==
    /\ resp.op = CountReport
    /\ ClinicianOnly(resp.user)
    /\ resp.req.clinician_id.kind = "int"
    /\ ~Owns(resp.user, resp.req.clinician_id.val)
    /\ resp.req.clinician_id.val \in Clinicians \ clinDeleted
    /\ ClinicianDepartment[resp.req.clinician_id.val] = resp.req.department_id
    /\ resp.status = HTTP_200_OK
    /\ Len(resp.rows) = 1
    /\ Owns(resp.user, resp.rows[1].clinician)

(* ------------------------- unknown departments ------------------------ *)
\* Admin, clinician and the admin who is also a clinician ask for the count
\* report of departments 1 and 2 and of an id no department has, with and
\* without the parameters department and clinician_id.
NoDepartment == Cardinality(Departments) + 1

NextDepartment ==
    \/ Idle /\ PatientCreate("admin", Jan, <<>>, 0)
    \/ \E p \in PatientIds, c \in {1, 3} : Idle /\ CreateLink(p, c)
    \/ Idle /\ DeleteClinician(1)
    \/ \E u \in {"admin", "doc", "chief"}, id \in Departments \cup {NoDepartment},
          dep \in {Absent, IntP(1), IntP(NoDepartment)}, cid \in {Absent, TextP} :
          Idle /\ ClinicianPatientCounts(u, id, dep, cid, Absent, Absent)
    \/ Deliver

SpecDepartment == Init /\ [][NextDepartment]_vars

\* C21: the count report of a department that does not exist is answered
\* 404 for every admin and every clinician, whatever the query parameters.
C21_UnknownDepartmentIsNotFound ==
    (/\ resp.op = CountReport
     /\ (resp.user \in PatientAdminGroup \/ ClinicianOnly(resp.user))
     /\ resp.req.department_id \notin Departments)
    => resp.status = HTTP_404_NOT_FOUND

(* ---------------------- clinicians of a department -------------------- *)
\* Admin and clinician ask for the count report of both departments, page
\* by page and whole, with and without clinician_id, while clinicians 1 and
\* 3 of department 1 are joined to patients and soft-deleted.
NextRoster ==
    \/ Idle /\ PatientCreate("admin", Jan, <<>>, 0)
    \/ \E p \in PatientIds, c \in {1, 3} : Idle /\ CreateLink(p, c)
    \/ \E c \in {1, 3} : Idle /\ DeleteClinician(c)
    \/ \E u \in {"admin", "doc"}, id \in Departments, dep \in {Absent, IntP(1)},
          cid \in {Absent, IntP(3)}, limit \in {Absent, IntP(1)},
          offset \in {Absent, IntP(1)} :
          Idle /\ ClinicianPatientCounts(u, id, dep, cid, limit, offset)
    \/ Deliver

SpecRoster == Init /\ [][NextRoster]_vars

\* The rows of the pages at the offsets off, off + L, off + 2L, ... of one
\* request, L being the limit in force, up to the first empty page.
RECURSIVE PagesFrom(_, _, _, _, _, _)
PagesFrom(u, department_id, department, clinician_id, limit, off) ==
    LET page == ClinicianPatientCounts_response(
                    u, department_id, department, clinician_id, limit, IntP(off))
    IN  IF page.rows = <<>> THEN <<>>
        ELSE page.rows \o PagesFrom(u, department_id, department, clinician_id,
                                    limit, off + get_limit(limit))

\* The clinicians of department d that are not soft-deleted.
LiveCliniciansOf(d) == {c \in Clinicians \ clinDeleted : ClinicianDepartment[c] = d}

\* C22: for an admin without clinician_id the total count and the rows of
\* all pages are exactly the non-deleted clinicians of the department, each
\* once, a clinician without live patients with patient_count 0; no row of
\* any answer, filtered or not, is a soft-deleted clinician.
C22_RosterIsLiveCliniciansOfDepartment ==
    /\ (/\ resp.op = CountReport
        /\ resp.user \in PatientAdminGroup
        /\ resp.req.clinician_id = Absent
        /\ resp.status = HTTP_200_OK)
       => LET all == PagesFrom(resp.user, resp.req.department_id, resp.req.department,
                               Absent, resp.req.limit, 0)
              live == LiveCliniciansOf(resp.req.department_id)
          IN  /\ resp.count = Cardinality(live)
              /\ Len(all) = Cardinality(live)
              /\ {all[i].clinician : i \in DOMAIN all} = live
              /\ \A i \in DOMAIN all :
                    LivePatientsOf(all[i].clinician) = {} => all[i].patient_count = 0
    /\ resp.op = CountReport
       => \A i \in DOMAIN resp.rows : resp.rows[i].clinician \notin clinDeleted

\* An admin reads a department after clinicians of it, one of whom has a
\* live relationship to a stored patient, were soft-deleted: one row, of the
\* clinician that is left, with patient_count 0.
C22_witness ==
    /\ resp.op = CountReport
    /\ resp.user \in PatientAdminGroup
    /\ resp.req.clinician_id = Absent
    /\ resp.status = HTTP_200_OK
    /\ resp.count = 1
    /\ Len(resp.rows) = 1
    /\ resp.rows[1].patient_count = 0
    /\ \E c \in clinDeleted :
          /\ ClinicianDepartment[c] = resp.req.department_id
          /\ LivePatientsOf(c) # {}

(* -------------------------- the clinician filter ---------------------- *)
\* The admins ask for the count report of both departments with
\* clinician_id absent, empty, no integer, the id of each clinician and an
\* id no clinician has; clinician 3 is joined to patients and soft-deleted.
NoClinician == Cardinality(Clinicians) + 1

NextFilter ==
    \/ Idle /\ PatientCreate("admin", Jan, <<>>, 0)
    \/ \E p \in PatientIds, c \in {1, 3} : Idle /\ CreateLink(p, c)
    \/ Idle /\ DeleteClinician(3)
    \/ \E u \in PatientAdminGroup, id \in Departments,
          cid \in {Absent, EmptyP, TextP} \cup {IntP(c) : c \in Clinicians \cup {NoClinician}} :
          Idle /\ ClinicianPatientCounts(u, id, Absent, cid, Absent, Absent)
    \/ Deliver

SpecFilter == Init /\ [][NextFilter]_vars

\* C23: for an admin a clinician_id that is no integer is answered 400 with
\* the key clinician_id; an integer is answered 200 with the one row of that
\* clinician when it is a non-deleted clinician of the department, and with
\* no row and a total of 0 otherwise.
C23_AdminClinicianFilter ==
    (/\ resp.op = CountReport
     /\ resp.user \in PatientAdminGroup
     /\ resp.req.department_id \in Departments)
    => LET cid == resp.req.clinician_id
       IN  /\ cid.kind \in {"empty", "text"}
              => /\ resp.status = HTTP_400_BAD_REQUEST
                 /\ resp.err = {"clinician_id"}
           /\ cid.kind = "int"
              => /\ resp.status = HTTP_200_OK
                 /\ IF cid.val \in LiveCliniciansOf(resp.req.department_id)
                    THEN /\ resp.count = 1
                         /\ resp.rows =
                              <<[clinician |-> cid.val,
                                 patient_count |-> Cardinality(LivePatientsOf(cid.val))]>>
                    ELSE /\ resp.count = 0
                         /\ resp.rows = <<>>

\* An admin named a clinician of the other department and got 200 with no
\* row.
C23_witness ==
    /\ resp.op = CountReport
    /\ resp.user \in PatientAdminGroup
    /\ resp.req.clinician_id.kind = "int"
    /\ resp.req.clinician_id.val \in Clinicians \ clinDeleted
    /\ ClinicianDepartment[resp.req.clinician_id.val] # resp.req.department_id
    /\ resp.status = HTTP_200_OK
    /\ resp.count = 0
    /\ resp.rows = <<>>

(* --------------------- rows of the scheduled report ------------------- *)
\* A query of the report for one type, named in procedure_type_id and in
\* procedure_type, with a date range and a department.
RangeQuery(t, from, to, dep) ==
    [Query(IntP(t), IntP(t), Absent, Absent, dep) EXCEPT !.date_from = from, !.date_to = to]

\* An admin stores procedures of type 1 in three statuses for two clinicians
\* on two days, and procedures of type 2; procedures, the patient and a clinician are
\* soft-deleted; admin and clinician read the report of type 1 with and
\* without a date range and a department.
NextRows ==
    \/ Idle /\ PatientCreate("admin", Jan, <<>>, 0)
    \/ \E c \in {1, 2}, at \in {now, now + DayLength},
          st \in {"PLANNED", "SCHEDULED", "COMPLETED"} :
          Idle /\ ProcedureCreate("admin", Payload(1, 1, c, at, st))
    \/ Idle /\ ProcedureCreate("admin", Payload(1, 2, 1, now, "PLANNED"))
    \/ \E id \in ProcedureIds : Idle /\ ProcedureDestroy("doc", id)
    \/ Idle /\ PatientDestroy("admin", 1)
    \/ Idle /\ DeleteClinician(1)
    \/ \E u \in {"admin", "doc"}, from \in {Absent, DateP(DateOf(now) + 1)},
          to \in {Absent, DateP(DateOf(now))}, dep \in {Absent, IntP(2)} :
          Idle /\ ScheduledPatients(u, RangeQuery(1, from, to, dep))
    \/ Deliver

SpecRows == Init /\ [][NextRows]_vars

\* The procedures the report of request q owes to u.
ScheduledRows(u, q) ==
    {i \in DOMAIN procedures :
        /\ ~procedures[i].deleted
        /\ procedures[i].procedure_type = q.procedure_type_id.val
        /\ procedures[i].status \in ActiveStatuses
        /\ ~patients[procedures[i].patient].deleted
        /\ procedures[i].clinician \notin clinDeleted
        /\ ClinicianOnly(u) => Owns(u, procedures[i].clinician)
        /\ q.date_from.kind = "date"
              => DateOf(procedures[i].scheduled_at) >= q.date_from.val
        /\ q.date_to.kind = "date"
              => DateOf(procedures[i].scheduled_at) <= q.date_to.val
        /\ q.department_id.kind = "int"
              => ClinicianDepartment[procedures[i].clinician] = q.department_id.val}

Today == DateOf(now)

NextDates ==
    \/ Idle /\ PatientCreate("admin", Jan, <<>>, 0)
    \/ \E at \in {now, now + DayLength} :
          Idle /\ ProcedureCreate("admin", Payload(1, 1, 1, at, "PLANNED"))
    \/ \E u \in {"admin", "doc"}, from \in {Absent, DateP(Today), DateP(Today + 1)},
          to \in {Absent, DateP(Today), DateP(Today + 1)} :
          Idle /\ ScheduledPatients(u, RangeQuery(1, from, to, Absent))
    \/ Idle /\ Tick
    \/ Deliver

SpecDates == Init /\ [][NextDates]_vars

NoType == Cardinality(ProcedureTypes) + 1
Outsiders == {"anon", "guest"}

NextGate ==
    \/ Idle /\ PatientCreate("admin", Jan, <<>>, 0)
    \/ Idle /\ ProcedureCreate("admin", Payload(1, 1, 1, now, "PLANNED"))
    \/ \E u \in Outsiders, q \in {NoSearch, Jan} : Idle /\ PatientList(u, q)
    \/ \E u \in Outsiders, id \in PatientIds : Idle /\ PatientRetrieve(u, id, NoSearch)
    \/ \E u \in Outsiders, dob \in {0, DateOf(now) + 1} :
          Idle /\ PatientCreate(u, Jan, <<>>, dob)
    \/ \E u \in Outsiders, id \in PatientIds : Idle /\ PatientUpdate(u, id, Bo)
    \/ \E u \in Outsiders, id \in PatientIds : Idle /\ PatientDestroy(u, id)
    \/ \E u \in Outsiders, id \in {1, NoDepartment}, dep \in {Absent, IntP(1)},
          cid \in {Absent, TextP} :
          Idle /\ ClinicianPatientCounts(u, id, dep, cid, Absent, Absent)
    \/ \E u \in Outsiders : Idle /\ ProcedureList(u)
    \/ \E u \in Outsiders, id \in ProcedureIds : Idle /\ ProcedureRetrieve(u, id)
    \/ \E u \in Outsiders, id \in ProcedureIds : Idle /\ ProcedureDestroy(u, id)
    \/ \E u \in Outsiders, p \in PatientIds, t \in {1, NoType}, at \in {NULL, now} :
          Idle /\ ProcedureCreate(u, Payload(p, t, 1, at, "PLANNED"))
    \/ \E u \in Outsiders, id \in ProcedureIds, p \in {NULL} \cup PatientIds :
          Idle /\ ProcedureUpdate(u, id, [patient_id |-> p, clinician_id |-> NULL])
    \/ \E u \in Outsiders, tid \in {Absent, TextP, IntP(1), IntP(NoType)},
          t \in {Absent, IntP(1)} :
          Idle /\ ScheduledPatients(u, Query(tid, t, Absent, Absent, Absent))
    \/ Deliver

SpecGate == Init /\ [][NextGate]_vars

\* C26, one step: a request of an unauthenticated client is answered 401
\* and a request of an authenticated principal who is neither admin nor
\* clinician is answered 403, on every endpoint and whatever the payload,
\* the parameters and the ids are; neither changes anything stored.
C26_step ==
    resp'.op # "none" =>
        /\ resp'.user = "anon"
           => resp'.status = HTTP_401_UNAUTHORIZED /\ store' = store
        /\ (/\ resp'.user # "anon"
            /\ resp'.user \notin PatientAdminGroup
            /\ \A c \in Clinicians : ~Owns(resp'.user, c))
           => resp'.status = HTTP_403_FORBIDDEN /\ store' = store

\* C26: authentication is checked before the role, and the role before
\* validation and lookup.
C26_ChecksRunInOrder == [][C26_step]_vars

\* A principal without a role sent a creation whose patient and type do not
\* exist and whose scheduled_at is missing, and was answered 403.
C26_witness ==
    /\ resp.op = "procedure_create"
    /\ resp.user = "guest"
    /\ resp.req.patient_id \notin DOMAIN patients
    /\ resp.req.procedure_type_id \notin ProcedureTypes
    /\ resp.req.scheduled_at = NULL
    /\ resp.status = HTTP_403_FORBIDDEN

(* -------------------------------- pages ------------------------------- *)
\* Admin and clinician read the count report of department 1, which has
\* three clinicians, with limit absent, 1 and 2 at the offsets 0 to 3, while
\* the clinicians are joined to patients and one is soft-deleted.
NextPages ==
    \/ Idle /\ PatientCreate("admin", Jan, <<>>, 0)
    \/ \E p \in PatientIds, c \in {1, 4} : Idle /\ CreateLink(p, c)
    \/ Idle /\ DeleteClinician(3)
    \/ \E u \in {"admin", "doc"}, limit \in {Absent, IntP(1), IntP(2)},
          offset \in {Absent} \cup {IntP(k) : k \in 1..3} :
          Idle /\ ClinicianPatientCounts(u, 1, IntP(1), Absent, limit, offset)
    \/ Deliver

SpecPages == Init /\ [][NextPages]_vars

\* The clinicians in the scope of a request to the count report: the
\* non-deleted clinicians of the department, for an admin the one named by
\* clinician_id when it is given, for a clinician their own.
InScope(u, req) ==
    {c \in LiveCliniciansOf(req.department_id) :
        IF u \in PatientAdminGroup
        THEN req.clinician_id.kind = "int" => c = req.clinician_id.val
        ELSE Owns(u, c)}

\* The rows a request gets for clinician c at limit and offset.
RowsOf(c, req, u, limit, offset) ==
    LET page == ClinicianPatientCounts_response(
                    u, req.department_id, req.department, req.clinician_id,
                    limit, offset)
    IN  {page.rows[i] : i \in {j \in DOMAIN page.rows : page.rows[j].clinician = c}}

\* C27: the pages of the count report at the offsets 0, L, 2L, ... put
\* together list every clinician in scope once, by name ascending and then
\* by id ascending; every page gives the number of clinicians in scope as
\* its total; the patient_count of a clinician is the same at every limit
\* and offset.
C27_PagesCoverOrderedClinicians ==
    (resp.op = CountReport /\ resp.status = HTTP_200_OK)
    => LET req == resp.req
           u == resp.user
           scope == InScope(u, req)
           L == get_limit(req.limit)
           all == PagesFrom(u, req.department_id, req.department,
                            req.clinician_id, req.limit, 0)
       IN  /\ Len(all) = Cardinality(scope)
           /\ {all[i].clinician : i \in DOMAIN all} = scope
           /\ \A i, j \in DOMAIN all :
                 i < j =>
                    \/ ClinicianName[all[i].clinician] < ClinicianName[all[j].clinician]
                    \/ /\ ClinicianName[all[i].clinician] = ClinicianName[all[j].clinician]
                       /\ all[i].clinician < all[j].clinician
           /\ resp.count = Cardinality(scope)
           /\ \A k \in 0..Cardinality(scope) :
                 ClinicianPatientCounts_response(
                     u, req.department_id, req.department, req.clinician_id,
                     req.limit, IntP(k * L)).count = Cardinality(scope)
           /\ \A i \in DOMAIN resp.rows :
                 \A limit \in {Absent, IntP(1), IntP(2)},
                    offset \in {Absent} \cup {IntP(k) : k \in 1..3} :
                    RowsOf(resp.rows[i].clinician, req, u, limit, offset)
                        \subseteq {resp.rows[i]}

\* The second page of one clinician each, of three in scope, shows the
\* clinician with the smallest id, who comes second by name, with patients.
C27_witness ==
    /\ resp.op = CountReport
    /\ resp.status = HTTP_200_OK
    /\ resp.req.limit = IntP(1)
    /\ resp.req.offset = IntP(1)
    /\ resp.count = 3
    /\ Len(resp.rows) = 1
    /\ resp.rows[1].clinician = 1
    /\ resp.rows[1].patient_count >= 1

(* --------------------------- omitted status --------------------------- *)
\* Admin and clinician create procedures with status omitted, PLANNED and
\* COMPLETED and scheduled_at before, at and after the clock reading, while
\* the clock advances.
NextOmitted ==
    \/ Idle /\ PatientCreate("admin", Jan, <<>>, 0)
    \/ Idle /\ CreateLink(1, 1)
    \/ Idle /\ Tick
    \/ \E u \in {"admin", "doc"}, at \in 1..MaxClock, st \in {"", "PLANNED", "COMPLETED"} :
          Idle /\ ProcedureCreate(u, Payload(1, 1, 1, at, st))
    \/ Deliver

SpecOmitted == Init /\ [][NextOmitted]_vars

\* C28, one step: a procedure that a creation stores with status PLANNED or
\* SCHEDULED has scheduled_at at or after the clock reading of the request.
C28_step ==
    Len(procedures') > Len(procedures) =>
        LET stored == procedures'[Len(procedures')]
        IN  stored.status \in ActiveStatuses => stored.scheduled_at >= now

\* C28: no creation, whether it names the status or leaves it to the
\* default PLANNED, stores a PLANNED or SCHEDULED procedure scheduled in the
\* past.
C28_StoredActiveProcedureIsNotPast == [][C28_step]_vars

(* ----------------------- the list and the count ----------------------- *)
\* Relationships of clinicians 1 and 3 are created, ended and soft-deleted
\* and patients are soft-deleted, while the two clinicians read their
\* patient list and an admin reads their rows of the count report.
NextAgree ==
    \/ Idle /\ PatientCreate("admin", Jan, <<>>, 0)
    \/ \E id \in PatientIds : Idle /\ PatientDestroy("admin", id)
    \/ \E p \in PatientIds, c \in {1, 3} : Idle /\ CreateLink(p, c)
    \/ \E l \in BagToSet(links) : Idle /\ EndLink(l)
    \/ \E l \in BagToSet(links) : Idle /\ DeleteLink(l)
    \/ Idle /\ DeleteClinician(3)
    \/ \E u \in {"doc", "nurse"} : Idle /\ PatientList(u, NoSearch)
    \/ \E c \in {1, 3} :
          Idle /\ ClinicianPatientCounts("admin", ClinicianDepartment[c], Absent,
                                         IntP(c), Absent, Absent)
    \/ Deliver

SpecAgree == Init /\ [][NextAgree]_vars

\* The row of clinician c in the count report an admin reads for c's
\* department.
CountRowOf(c) ==
    ClinicianPatientCounts_response("admin", ClinicianDepartment[c], Absent,
                                    IntP(c), Absent, Absent).rows

\* C29: in every state of the store, for every non-deleted clinician who is
\* no admin, the patient list returns as many patients to the clinician as
\* the count report gives as the clinician's patient_count.
C29_ListAgreesWithCount ==
    \A c \in Clinicians \ clinDeleted :
        ClinicianOnly(ClinicianUser[c]) =>
            /\ Len(CountRowOf(c)) = 1
            /\ PatientList_response(ClinicianUser[c], NoSearch).count
                  = CountRowOf(c)[1].patient_count

(* ------------------------ writes during a report ---------------------- *)
\* The count report reads the store in three queries, none inside a
\* transaction: the paginator's COUNT of the clinicians, the slice of the
\* page, and the aggregation of the relationships of the page.  A request
\* under way is kept in resp with status 0: after the COUNT its op is
\* PendingPage and count is set; after the slice its op is PendingAggregate
\* and rows holds the clinicians of the page.
PendingPage == "clinician_patient_counts:page"
PendingAggregate == "clinician_patient_counts:aggregate"
Pending == resp.op \in {PendingPage, PendingAggregate}

\* get() up to paginate_queryset's self.count = self.get_count(queryset);
\* a refusal is answered at once.
CountsBegin(u, department_id, department, clinician_id, limit, offset) ==
    LET r == ClinicianPatientCounts_response(u, department_id, department,
                                             clinician_id, limit, offset)
    IN  /\ resp' = IF r.status # HTTP_200_OK THEN r
                   ELSE [r EXCEPT !.op = PendingPage, !.status = 0, !.rows = <<>>]
        /\ UNCHANGED <<store, now>>

\* paginate_queryset: list(queryset[offset:offset + limit]), no query when
\* the count was 0 or the offset is past it.
CountsPage ==
    /\ resp.op = PendingPage
    /\ LET r == ClinicianPatientCounts_response(
                    resp.user, resp.req.department_id, resp.req.department,
                    resp.req.clinician_id, resp.req.limit, resp.req.offset)
           page == IF resp.count = 0 \/ get_offset(resp.req.offset) > resp.count
                   THEN <<>>
                   ELSE [i \in DOMAIN r.rows |->
                            [clinician |-> r.rows[i].clinician, patient_count |-> 0]]
       IN  resp' = [resp EXCEPT !.op = PendingAggregate, !.rows = page]
    /\ UNCHANGED <<store, now>>

\* The aggregation over the clinicians of the page and the response.
CountsAggregate ==
    /\ resp.op = PendingAggregate
    /\ LET page == [i \in DOMAIN resp.rows |-> resp.rows[i].clinician]
           rows == counts_qs(page)
       IN  resp' = [resp EXCEPT
                       !.op = "clinician_patient_counts",
                       !.status = HTTP_200_OK,
                       !.rows = [i \in DOMAIN page |->
                                    [clinician |-> page[i],
                                     patient_count |-> patient_count(rows, page[i])]]]
    /\ UNCHANGED <<store, now>>

\* Writes of other requests that commit while the report is under way.
ClinicianDeletedMeanwhile(c) ==
    /\ Pending
    /\ c \notin clinDeleted
    /\ clinDeleted' = clinDeleted \cup {c}
    /\ UNCHANGED <<patients, links, procedures, retired, now, resp>>

PatientDeletedMeanwhile(p) ==
    /\ Pending
    /\ p \in SoftDeleteManager(patients)
    /\ patients' = SoftDelete(patients, p)
    /\ UNCHANGED <<links, clinDeleted, procedures, retired, now, resp>>

LinkCreatedMeanwhile(p, c) ==
    /\ Pending
    /\ BagCardinality(links) < MaxLinks
    /\ p \in DOMAIN patients
    /\ links' = links (+) SetToBag({[patient |-> p, clinician |-> c,
                                     relationship_end |-> NULL, deleted |-> FALSE]})
    /\ UNCHANGED <<patients, clinDeleted, procedures, retired, now, resp>>

LinkEndedMeanwhile(l) ==
    /\ Pending
    /\ l \in BagToSet(links)
    /\ l.relationship_end = NULL
    /\ links' = ReplaceRow(links, l, [l EXCEPT !.relationship_end = now])
    /\ UNCHANGED <<patients, clinDeleted, procedures, retired, now, resp>>

\* Admin and clinician read the whole report of department 1 while
\* clinicians and patients are soft-deleted and relationships are created
\* and ended.
NextSnapshot ==
    \/ Idle /\ PatientCreate("admin", Jan, <<>>, 0)
    \/ \E p \in PatientIds, c \in {1, 4} : Idle /\ CreateLink(p, c)
    \/ \E u \in {"admin", "doc"}, dep \in {Absent, IntP(1)} :
          Idle /\ CountsBegin(u, 1, dep, Absent, Absent, Absent)
    \/ CountsPage
    \/ CountsAggregate
    \/ \E c \in {1, 3} : ClinicianDeletedMeanwhile(c)
    \/ \E p \in PatientIds : PatientDeletedMeanwhile(p)
    \/ \E p \in PatientIds, c \in {1, 4} : LinkCreatedMeanwhile(p, c)
    \/ \E l \in BagToSet(links) : LinkEndedMeanwhile(l)
    \/ ~Pending /\ Deliver

SpecSnapshot == Init /\ [][NextSnapshot]_vars

\* C30: a response of the count report is the response to one state of the
\* store: there is a set of soft-deleted clinicians for which the total is
\* the number of clinicians in scope and the rows are their page in order,
\* with patient counts that a table of relationships can give, also when
\* writes commit while the request is under way.
C30_ResponseIsOneSnapshot ==
    (resp.op = CountReport /\ resp.status = HTTP_200_OK)
    => \E D \in SUBSET Clinicians :
          LET scope == {c \in Clinicians \ D :
                           /\ ClinicianDepartment[c] = resp.req.department_id
                           /\ ClinicianOnly(resp.user) => Owns(resp.user, c)}
              page == paginate_queryset(order_by_name_id(scope),
                                        resp.req.limit, resp.req.offset)
          IN  /\ resp.count = Cardinality(scope)
              /\ [i \in DOMAIN resp.rows |-> resp.rows[i].clinician] = page
              /\ \A i \in DOMAIN resp.rows :
                    resp.rows[i].patient_count \in 0..Len(patients)

====
